---- MODULE Spec2Model ----
(***************************************************************************)
(* A model of the API client: postmanUtils and the PostmanApp component.   *)
(*                                                                         *)
(* SpecNav       : findItemByPath on every bounded collection and path.    *)
(* SpecExec      : executeRequest, one suspension point per await.         *)
(* SpecMutate    : the handlers that add and change items of the tree.     *)
(* SpecJson      : exportCollection and the parse of its text.             *)
(* SpecKV        : saveToLocalStorage and loadFromLocalStorage.            *)
(* SpecList      : loadCollectionsFromFolder.                              *)
(* SpecStore     : creating, importing and deleting collections, and the   *)
(*                 calls of the directory backend, one at a time.          *)
(* SpecSend      : handleSendRequest and the response that is shown.       *)
(* SpecAutoSave  : the passes of the auto-save effect, side by side.       *)
(* SpecSession   : mount, selection of a folder and reload.                *)
(* SpecKvSession : the session of a browser without showDirectoryPicker.   *)
(***************************************************************************)
EXTENDS Integers, Sequences, FiniteSets, TLC

VARIABLES
    \* SpecNav: the arguments of findItemByPath, its position and its result
    navCollection, navPath, navPc, navResult,
    \* SpecExec: the argument of executeRequest, its position, the arguments
    \* it gave fetch, the Response fetch resolved to, the body text that was
    \* read from it (the local `data`), the value the promise settled with,
    \* how it settled, and the step whose exception was caught (history)
    request, execPc, outgoing, response, responseText, result, settled, thrownAt,
    \* SpecMutate: the component state `collections` (collection objects
    \* whose `item` is a reference to an array), the arrays the references
    \* stand for, the active selection, and two history variables: the call
    \* the handler was given and the collections array it was given (its
    \* objects and their content before the call)
    collections, heap, activeCollection, activeRequest, activeRequestPath,
    lastOp, given,
    \* SpecJson: a collection document, the text exportCollection made of
    \* it, what JSON.parse and parsePostmanCollection made of the text, and
    \* the position in this round trip
    jsonDoc, jsonText, jsonParsed, jsonPc,
    \* SpecKV: the entries of localStorage, and the last call of the
    \* key-value backend with what it met and how it ended (history)
    kvStore, kvCall,
    \* SpecList: the entries of the directory in enumeration order, and the
    \* running call of loadCollectionsFromFolder: its position, the entry
    \* the for-await loop is at, its local array `collections`, the entries
    \* whose read threw and whether the enumeration itself threw (history)
    dir, listing,
    \* SpecStore: the persistence mode (usingFileSystem, and whether a
    \* folder handle is set), the running call of the directory backend
    \* with the handler that awaits it, and the last call that ended
    \* (history)
    usingFileSystem, folderHandle, dirTask,
    \* SpecSend: the component state `response` and `isLoading`, and the
    \* executeRequest calls that have not settled yet
    shownResponse, isLoading, inFlight,
    \* SpecAutoSave: the saveCollectionToFolder calls the auto-save effect
    \* has started, each with the pass that started it and its position
    saves,
    \* SpecSession: whether the browser has showDirectoryPicker, whether the
    \* component is mounted and how often it has been mounted, the running
    \* handleSelectFolder with the folder and the working set it met
    \* (history), whether the folder handle is the object read back from
    \* localStorage, and the working set of the last write of
    \* 'postman-collections' that went through (history)
    support, mounted, startups, selecting, restored, lastSaved

navVars == <<navCollection, navPath, navPc, navResult>>

execVars == <<request, execPc, outgoing, response, responseText, result, settled, thrownAt>>

appVars == <<collections, heap, activeCollection, activeRequest, activeRequestPath>>

mutVars == <<lastOp, given>>

jsonVars == <<jsonDoc, jsonText, jsonParsed, jsonPc>>

kvVars == <<kvStore, kvCall>>

dirVars == <<dir>>

listVars == <<listing>>

selectionVars == <<activeCollection, activeRequest, activeRequestPath>>

storeVars == <<usingFileSystem, folderHandle, dirTask>>

sendVars == <<shownResponse, isLoading, inFlight>>

lifeVars == <<support, mounted, startups, selecting, restored, lastSaved>>

sessionVars == <<saves, lifeVars>>

vars == <<navVars, execVars, appVars, mutVars, jsonVars, kvVars, dirVars, listVars,
          storeVars, sendVars, sessionVars>>

\* what each specification leaves alone
outsideNav == <<execVars, appVars, mutVars, jsonVars, kvVars, dirVars, listVars,
                 storeVars, sendVars, sessionVars>>

outsideExec == <<navVars, appVars, mutVars, jsonVars, kvVars, dirVars, listVars,
                  storeVars, sendVars, sessionVars>>

\* what the handlers of PostmanApp leave alone
outsideApp == <<navVars, execVars, jsonVars, kvVars, listVars, sessionVars>>

outsideJson == <<navVars, execVars, appVars, mutVars, kvVars, dirVars, listVars,
                  storeVars, sendVars, sessionVars>>

outsideList == <<navVars, execVars, appVars, mutVars, jsonVars, kvVars,
                  storeVars, sendVars, sessionVars>>

outsideKV == <<navVars, execVars, appVars, mutVars, jsonVars, dirVars, listVars,
                storeVars, sendVars, sessionVars>>

\* what the auto-save passes leave alone, besides the component state
outsidePass == <<navVars, execVars, jsonVars, kvVars, listVars, lifeVars>>

-----------------------------------------------------------------------------
(* Bounds of the model.                                                    *)

\* the largest number of items (folders and requests) in one collection
MaxNodes == 4

\* the longest path handed to findItemByPath
MaxPath == 3

\* the item names in use
Names == {"a", "b"}

\* the longest header list of a request document
MaxHeaders == 2

\* the largest number of items in the collection a mutation handler is
\* applied to
MaxTreeItems == 2

\* the longest folder path handed to a mutation handler
MaxFolderPath == 2

\* the longest collection name
MaxNameLen == 2

\* the largest number of entries of a directory that is listed
MaxEntries == 3

\* the largest number of collections in the working set
MaxCollections == 2

-----------------------------------------------------------------------------
(* Document model: items.  An item carries `name`; a folder carries the    *)
(* array `item` (isFolder records that the field is present), a request    *)
(* item carries `request` and no `item`.                                   *)

\* a request document as the component state holds it: the document
\* createNewRequest builds, a document the editor produced, or none
NewRequestDoc == "GET (new)"

EditedRequestDoc == "POST (edited)"

NoRequestDoc == "none"

createNewRequest(name) ==
    [name |-> name, isFolder |-> FALSE, item |-> <<>>, request |-> NewRequestDoc]

createNewFolder(name) ==
    [name |-> name, isFolder |-> TRUE, item |-> <<>>, request |-> NoRequestDoc]

\* a folder holding the given children
FolderOf(name, children) == [createNewFolder(name) EXCEPT !.item = children]

RECURSIVE ItemsOfSize(_), ForestsOfSize(_)

\* every item that is the root of a tree of exactly n items
ItemsOfSize(n) ==
    (IF n = 1 THEN {createNewRequest(nm) : nm \in Names} ELSE {})
        \cup {FolderOf(nm, f) : nm \in Names, f \in ForestsOfSize(n - 1)}

\* every item array whose trees hold exactly n items altogether
ForestsOfSize(n) ==
    IF n = 0 THEN {<<>>}
    ELSE UNION {{<<t>> \o rest : t \in ItemsOfSize(k), rest \in ForestsOfSize(n - k)}
                    : k \in 1..n}

\* every collection of at most MaxNodes items
Collections == {[item |-> f] : f \in UNION {ForestsOfSize(n) : n \in 0..MaxNodes}}

\* every path of at most MaxPath names
Paths == UNION {[1..n -> Names] : n \in 0..MaxPath}

-----------------------------------------------------------------------------
(* Tree navigator.  An item is identified by its location: the sequence of *)
(* 1-based indices leading to it from collection.item.  The location <<>>  *)
(* stands for the collection itself (its array is collection.item).        *)

NotFound == [found |-> FALSE, at |-> <<>>]

Found(loc) == [found |-> TRUE, at |-> loc]

RECURSIVE ItemAt(_, _)
\* the item at location loc (loc non-empty) below the array items
ItemAt(items, loc) ==
    IF Len(loc) = 1 THEN items[loc[1]]
    ELSE ItemAt(items[loc[1]].item, Tail(loc))

\* the array owned by the container at location loc
ArrayAt(collection, loc) ==
    IF loc = <<>> THEN collection.item ELSE ItemAt(collection.item, loc).item

\* the mutant: the last element carrying the name
FindByNameLast(items, segment) ==
    IF \E i \in 1..Len(items) : items[i].name = segment
    THEN CHOOSE i \in 1..Len(items) :
            /\ items[i].name = segment
            /\ \A j \in (i + 1)..Len(items) : items[j].name # segment
    ELSE 0

\* Array.prototype.find(i => i.name === segment): the index of the first
\* element carrying the name, 0 when there is none
FindByName(items, segment) ==
    IF \E i \in 1..Len(items) : items[i].name = segment
    THEN CHOOSE i \in 1..Len(items) :
            /\ items[i].name = segment
            /\ \A j \in 1..(i - 1) : items[j].name # segment
    ELSE 0

\* `if (item.item) current = item.item`: the array searched by the next
\* iteration, given the item just matched at location loc
NextCurrent(collection, current, loc) ==
    IF ItemAt(collection.item, loc).isFolder THEN loc ELSE current

RECURSIVE WalkPath(_, _, _, _)
\* the for loop: `current` is the location of the container being searched,
\* `item` the value of the variable item, `path` the segments still to visit
WalkPath(collection, current, item, path) ==
    IF path = <<>> THEN item
    ELSE LET idx == FindByName(ArrayAt(collection, current), Head(path))
         IN  IF idx = 0 THEN NotFound
             ELSE LET loc == Append(current, idx)
                  IN  WalkPath(collection, NextCurrent(collection, current, loc),
                               Found(loc), Tail(path))

\* the mutant: item starts as the first top-level item instead of null
findItemByPathFromFirst(collection, path) ==
    WalkPath(collection, <<>>,
             IF collection.item = <<>> THEN NotFound ELSE Found(<<1>>), path)

findItemByPath(collection, path) == WalkPath(collection, <<>>, NotFound, path)


-----------------------------------------------------------------------------
(* Request documents (PostmanRequest).  Optional fields may be missing:    *)
(* `kind`/`mode`/`type` "absent" stands for undefined.                     *)

\* header keys and values in use; "" is the blank row of the editor
HeaderKeys == {"", "Authorization", "Content-Type"}

HeaderValues == {"", "v1", "v2"}

\* PostmanHeader: disabled missing and disabled false behave alike
Headers == [key : HeaderKeys, value : HeaderValues, disabled : BOOLEAN]

HeaderLists == UNION {[1..n -> Headers] : n \in 0..MaxHeaders}

\* request.header: an array, undefined, or (a malformed document) a value
\* that is no array, on which forEach is not a function
HeaderFields ==
    {[kind |-> "array", list |-> l] : l \in HeaderLists}
        \cup {[kind |-> "absent", list |-> <<>>], [kind |-> "notArray", list |-> <<>>]}

Methods == {"GET", "POST"}

\* request.body: undefined, or {mode, raw}
Bodies ==
    {[mode |-> "absent", raw |-> ""], [mode |-> "raw", raw |-> ""],
     [mode |-> "raw", raw |-> "{\"q\": 1}"], [mode |-> "formdata", raw |-> "{\"q\": 1}"]}

\* request.url: a string, a PostmanUrl object with raw, or undefined
Urls ==
    {[kind |-> "string", raw |-> "https://api.test/items"],
     [kind |-> "object", raw |-> "https://api.test/items"],
     [kind |-> "absent", raw |-> ""]}

AuthEntry(k, v) == [key |-> k, value |-> v]

\* request.auth: undefined, or {type, bearer?}; hasBearer records that the
\* bearer array is present
Auths ==
    {[type |-> "absent", hasBearer |-> FALSE, bearer |-> <<>>],
     [type |-> "noauth", hasBearer |-> FALSE, bearer |-> <<>>],
     [type |-> "basic", hasBearer |-> TRUE, bearer |-> <<AuthEntry("token", "abc")>>],
     [type |-> "bearer", hasBearer |-> FALSE, bearer |-> <<>>],
     [type |-> "bearer", hasBearer |-> TRUE, bearer |-> <<AuthEntry("token", "")>>],
     [type |-> "bearer", hasBearer |-> TRUE, bearer |-> <<AuthEntry("token", "abc")>>],
     [type |-> "bearer", hasBearer |-> TRUE,
      bearer |-> <<AuthEntry("scope", "s"), AuthEntry("token", "abc")>>]}

\* the documents that vary the header list against the auth and the body
HeaderRequests ==
    [method : {"POST"}, header : HeaderFields,
     body : {b \in Bodies : b.mode = "absent" \/ (b.mode = "raw" /\ b.raw # "")},
     url : {u \in Urls : u.kind = "string"}, auth : Auths]

\* the documents that vary the method, the body, the url and the auth, with
\* at most one header
ShapeRequests ==
    [method : Methods, header : {h \in HeaderFields : Len(h.list) <= 1},
     body : Bodies, url : Urls, auth : Auths]

Requests == HeaderRequests \cup ShapeRequests

-----------------------------------------------------------------------------
(* The transport: what fetch and Response.text() can do.                   *)

\* a thrown value: an Error with its message, or a value that is no Error
TypeError(msg) == [isError |-> TRUE, message |-> msg]

ThrownValues ==
    {TypeError("Failed to fetch"), [isError |-> FALSE, message |-> ""]}

\* `request.header.forEach is not a function`
NotAFunction == TypeError("request.header.forEach is not a function")

NoHeaders == [k \in {} |-> ""]

\* the Response objects fetch can resolve to (status, statusText, headers)
Responses ==
    {[status |-> 200, statusText |-> "OK",
      headers |-> [k \in {"content-type"} |-> "application/json"]],
     [status |-> 404, statusText |-> "Not Found", headers |-> NoHeaders]}

\* the body texts Response.text() can resolve to
ResponseTexts == {"", "<html>", "{\"a\": 1}", "12"}

\* JSON.parse: the parsed value (its type and a canonical rendering), or a
\* SyntaxError
JSONParse(text) ==
    CASE text = "{\"a\": 1}" -> [ok |-> TRUE, value |-> "object {a: 1}"]
      [] text = "12"         -> [ok |-> TRUE, value |-> "number 12"]
      [] OTHER               -> [ok |-> FALSE, value |-> ""]

\* new Blob([data]).size: the length of the text in bytes
BlobSize(text) ==
    CASE text = ""            -> 0
      [] text = "<html>"      -> 6
      [] text = "{\"a\": 1}"  -> 8
      [] text = "12"          -> 2

-----------------------------------------------------------------------------
(* Request executor.                                                       *)

\* the mutant: a key that is already set keeps its value
PutKeepFirst(headers, k, v) ==
    [x \in DOMAIN headers \cup {k} |-> IF x \in DOMAIN headers THEN headers[x] ELSE v]

\* headers[k] = v on a plain object
Put(headers, k, v) ==
    [x \in DOMAIN headers \cup {k} |-> IF x = k THEN v ELSE headers[x]]

\* the mutant: the disabled flag is not looked at
CopiesHeaderIgnoringDisabled(h) == h.key # "" /\ h.value # ""

\* `!h.disabled && h.key && h.value`
CopiesHeader(h) == ~h.disabled /\ h.key # "" /\ h.value # ""

RECURSIVE CopyHeaders(_, _)
\* request.header?.forEach(...) onto the object headers
CopyHeaders(list, headers) ==
    IF list = <<>> THEN headers
    ELSE CopyHeaders(Tail(list),
                     IF CopiesHeader(Head(list))
                     THEN Put(headers, Head(list).key, Head(list).value)
                     ELSE headers)

\* request.auth.bearer.find(item => item.key === 'token')?.value, "" when
\* there is no such entry (undefined and "" are both falsy)
BearerToken(bearer) ==
    IF \E i \in 1..Len(bearer) : bearer[i].key = "token"
    THEN bearer[CHOOSE i \in 1..Len(bearer) :
                    /\ bearer[i].key = "token"
                    /\ \A j \in 1..(i - 1) : bearer[j].key # "token"].value
    ELSE ""

\* the mutant: an Authorization header of the request's own list is kept
AddAuthHeaderUnlessSet(auth, headers) ==
    IF auth.type = "bearer" /\ auth.hasBearer /\ BearerToken(auth.bearer) # ""
          /\ "Authorization" \notin DOMAIN headers
    THEN Put(headers, "Authorization", "Bearer " \o BearerToken(auth.bearer))
    ELSE headers

\* `// Add auth headers`
AddAuthHeader(auth, headers) ==
    IF auth.type = "bearer" /\ auth.hasBearer /\ BearerToken(auth.bearer) # ""
    THEN Put(headers, "Authorization", "Bearer " \o BearerToken(auth.bearer))
    ELSE headers

\* `let body`: whether it is set, and its text
PreparedBody(body) ==
    IF body.mode = "raw" /\ body.raw # ""
    THEN [present |-> TRUE, text |-> body.raw]
    ELSE [present |-> FALSE, text |-> ""]

\* the default Content-Type of a prepared body
AddContentType(body, headers) ==
    IF PreparedBody(body).present /\ "Content-Type" \notin DOMAIN headers
    THEN Put(headers, "Content-Type", "application/json")
    ELSE headers

\* the mutant: the method is not looked at
SentBodyAnyMethod(method, body) == PreparedBody(body)

\* `body && request.method !== 'GET' ? body : undefined`
SentBody(method, body) ==
    IF PreparedBody(body).present /\ method # "GET"
    THEN PreparedBody(body)
    ELSE [present |-> FALSE, text |-> ""]

\* `typeof request.url === 'string' ? request.url : request.url?.raw || ''`
ResolveUrl(url) == IF url.kind = "absent" THEN "" ELSE url.raw

NoCall == [called |-> FALSE, url |-> "", method |-> "", headers |-> NoHeaders,
           body |-> [present |-> FALSE, text |-> ""]]

\* the arguments of the fetch call
FetchCall(req) ==
    [called  |-> TRUE,
     url     |-> ResolveUrl(req.url),
     method  |-> req.method,
     headers |-> AddContentType(req.body,
                    AddAuthHeader(req.auth, CopyHeaders(req.header.list, NoHeaders))),
     body    |-> SentBody(req.method, req.body)]

NoResponse == [received |-> FALSE, status |-> 0, statusText |-> "", headers |-> NoHeaders]

NoResult == [status |-> 0, statusText |-> "", headers |-> NoHeaders,
             data |-> [kind |-> "none", value |-> ""], size |-> 0]

\* the mutant: error.message is read whatever was thrown
NetworkErrorResponseNoFallback(error) ==
    [status |-> 0, statusText |-> "Network Error", headers |-> NoHeaders,
     data |-> [kind |-> "error", value |-> error.message], size |-> 0]

\* the value returned by the catch block
NetworkErrorResponse(error) ==
    [status     |-> 0,
     statusText |-> "Network Error",
     headers    |-> NoHeaders,
     data       |-> [kind |-> "error",
                     value |-> IF error.isError THEN error.message ELSE "Unknown error"],
     size       |-> 0]

\* `try { parsedData = JSON.parse(data) } catch { parsedData = data }`
ParsedData(text) ==
    IF JSONParse(text).ok
    THEN [kind |-> "json", value |-> JSONParse(text).value]
    ELSE [kind |-> "text", value |-> text]

\* the mutant: a SyntaxError of JSON.parse reaches the outer catch block
SuccessResponseParseThrows(resp, text) ==
    IF JSONParse(text).ok
    THEN [status |-> resp.status, statusText |-> resp.statusText,
          headers |-> resp.headers, data |-> ParsedData(text), size |-> BlobSize(text)]
    ELSE NetworkErrorResponse(TypeError("Unexpected token < in JSON at position 0"))

\* the value returned by the try block (responseTime, a difference of two
\* clock readings, is left out of the record)
SuccessResponse(resp, text) ==
    [status     |-> resp.status,
     statusText |-> resp.statusText,
     headers    |-> resp.headers,
     data       |-> ParsedData(text),
     size       |-> BlobSize(text)]

\* the mutant: the catch block throws the error again
RethrowError(error) == [settled |-> "rejected", result |-> NoResult]

\* `catch (error) { ... return {...} }`: the promise resolves
CatchError(error) == [settled |-> "resolved", result |-> NetworkErrorResponse(error)]

\* the round trip is not in use
JsonIdle ==
    /\ jsonDoc = <<>>
    /\ jsonText = <<>>
    /\ jsonParsed = <<>>
    /\ jsonPc = "idle"

\* the key-value backend is not in use
KvIdle ==
    /\ kvStore = <<>>
    /\ kvCall = <<>>

\* no call of loadCollectionsFromFolder is running
NotListing ==
    [pc |-> "idle", pos |-> 0, collections |-> <<>>, readFailed |-> {}, cutShort |-> FALSE]

\* the directory backend is not in use
DirIdle ==
    /\ dir = <<>>
    /\ listing = NotListing

\* no response is shown (null)
NoShown == [shown |-> FALSE, status |-> 0, selection |-> <<>>]

\* the send state is not in use
SendIdle ==
    /\ shownResponse = NoShown
    /\ isLoading = FALSE
    /\ inFlight = {}

\* no collection object (null)
NoCollection == [id |-> "", name |-> <<>>, item |-> 0]

\* the object a JSON document without `info` is parsed to
NoInfoCollection == [id |-> "undefined", name |-> <<"undefined">>, item |-> 0]

\* the render of the working set goes through: CollectionTree reads
\* collection.info._postman_id and collection.info.name of every collection,
\* and a render that throws takes the application down
Rendered == \A i \in 1..Len(collections) : collections[i] # NoInfoCollection

\* no call of the directory backend is running
NoTask ==
    [op |-> "none", pc |-> "none", caller |-> "none", collection |-> NoCollection,
     fileName |-> <<>>, text |-> <<>>, active |-> NoCollection, failedAt |-> "none"]

\* the running call of the directory backend has returned or thrown, and
\* the handler awaiting it has not gone on yet
CallSettled == dirTask.pc \in {"returned", "threw"}

\* what the selection of a folder has not begun looks like
NotSelecting == [pc |-> "none", dir |-> <<>>, collections |-> <<>>]

\* the auto-save passes and the session are not in use
SessionIdle ==
    /\ saves = <<>>
    /\ support = FALSE
    /\ mounted = TRUE
    /\ startups = 1
    /\ selecting = NotSelecting
    /\ restored = FALSE
    /\ lastSaved = <<>>

\* the persistence state is not in use
StoreIdle ==
    /\ usingFileSystem = FALSE
    /\ folderHandle = FALSE
    /\ dirTask = NoTask

\* the component state is not in use
AppIdle ==
    /\ collections = <<>>
    /\ heap = <<>>
    /\ activeCollection = NoCollection
    /\ activeRequest = NoRequestDoc
    /\ activeRequestPath = <<>>

NoOp == [kind |-> "none", id |-> "", path |-> <<>>, name |-> ""]

NoGiven == [set |-> <<>>, content |-> <<>>, selection |-> <<>>]

MutIdle ==
    /\ lastOp = NoOp
    /\ given = NoGiven

\* the navigator is not in use
NavIdle ==
    /\ navCollection = [item |-> <<>>]
    /\ navPath = <<>>
    /\ navPc = "idle"
    /\ navResult = NotFound

ExecInit ==
    /\ SessionIdle
    /\ NavIdle
    /\ AppIdle
    /\ MutIdle
    /\ JsonIdle
    /\ KvIdle
    /\ DirIdle
    /\ StoreIdle
    /\ SendIdle
    /\ request \in Requests
    /\ execPc = "start"
    /\ outgoing = NoCall
    /\ response = NoResponse
    /\ responseText = ""
    /\ result = NoResult
    /\ settled = "pending"
    /\ thrownAt = "none"

\* the call of executeRequest, up to `await fetch(...)`: the preparation
\* throws on a header field that is no array, and calls fetch otherwise
Prepare ==
    /\ execPc = "start"
    /\ IF request.header.kind = "notArray"
       THEN /\ execPc' = "done"
            /\ settled' = CatchError(NotAFunction).settled
            /\ result' = CatchError(NotAFunction).result
            /\ thrownAt' = "prepare"
            /\ UNCHANGED outgoing
       ELSE /\ execPc' = "awaitFetch"
            /\ outgoing' = FetchCall(request)
            /\ UNCHANGED <<settled, result, thrownAt>>
    /\ UNCHANGED <<request, response, responseText>>
    /\ UNCHANGED outsideExec

\* fetch rejects: DNS, refused connection, CORS block
FetchRejects ==
    /\ execPc = "awaitFetch"
    /\ \E error \in ThrownValues :
          /\ settled' = CatchError(error).settled
          /\ result' = CatchError(error).result
    /\ execPc' = "done"
    /\ thrownAt' = "fetch"
    /\ UNCHANGED <<request, outgoing, response, responseText>>
    /\ UNCHANGED outsideExec

\* fetch resolves, whatever the status, up to `await response.text()`
FetchResolves ==
    /\ execPc = "awaitFetch"
    /\ \E resp \in Responses :
          response' = [received |-> TRUE, status |-> resp.status,
                       statusText |-> resp.statusText, headers |-> resp.headers]
    /\ execPc' = "awaitText"
    /\ UNCHANGED <<request, outgoing, responseText, result, settled, thrownAt>>
    /\ UNCHANGED outsideExec

\* reading the body fails
TextRejects ==
    /\ execPc = "awaitText"
    /\ \E error \in ThrownValues :
          /\ settled' = CatchError(error).settled
          /\ result' = CatchError(error).result
    /\ execPc' = "done"
    /\ thrownAt' = "text"
    /\ UNCHANGED <<request, outgoing, response, responseText>>
    /\ UNCHANGED outsideExec

\* the body is read: parse it, copy the headers, return
TextResolves ==
    /\ execPc = "awaitText"
    /\ \E text \in ResponseTexts :
          /\ responseText' = text
          /\ result' = SuccessResponse(response, text)
          /\ thrownAt' = IF JSONParse(text).ok THEN "none" ELSE "parse"
    /\ settled' = "resolved"
    /\ execPc' = "done"
    /\ UNCHANGED <<request, outgoing, response>>
    /\ UNCHANGED outsideExec

ExecNext ==
    \/ Prepare
    \/ FetchRejects
    \/ FetchResolves
    \/ TextRejects
    \/ TextResolves

SpecExec == ExecInit /\ [][ExecNext]_vars

-----------------------------------------------------------------------------
(* SpecNav: the navigator applied to one collection and one path.          *)

\* the executor is not in use
ExecIdle ==
    /\ request = CHOOSE r \in Requests : TRUE
    /\ execPc = "idle"
    /\ outgoing = NoCall
    /\ response = NoResponse
    /\ responseText = ""
    /\ result = NoResult
    /\ settled = "pending"
    /\ thrownAt = "none"

NavInit ==
    /\ SessionIdle
    /\ ExecIdle
    /\ AppIdle
    /\ MutIdle
    /\ JsonIdle
    /\ KvIdle
    /\ DirIdle
    /\ StoreIdle
    /\ SendIdle
    /\ navCollection \in Collections
    /\ navPath \in Paths
    /\ navPc = "call"
    /\ navResult = NotFound

FindItemByPath ==
    /\ navPc = "call"
    /\ navResult' = findItemByPath(navCollection, navPath)
    /\ navPc' = "returned"
    /\ UNCHANGED <<navCollection, navPath>>
    /\ UNCHANGED outsideNav

NavNext == FindItemByPath

SpecNav == NavInit /\ [][NavNext]_vars

-----------------------------------------------------------------------------
(* Claims about the tree navigator.                                        *)

RECURSIVE LocationsBelow(_)
\* the location of every item below the array items
LocationsBelow(items) ==
    UNION {{<<i>>} \cup {<<i>> \o l : l \in LocationsBelow(items[i].item)}
              : i \in 1..Len(items)}

Locations(collection) == LocationsBelow(collection.item)

Prefix(s, k) == SubSeq(s, 1, k)

\* the siblings of the item at loc: the array that holds it
SiblingsOf(collection, loc) == ArrayAt(collection, Prefix(loc, Len(loc) - 1))

\* loc is the chain of items the path names: level by level the item carries
\* the segment's name, no earlier sibling carries it, and every item but the
\* last is a folder
IsChainOf(collection, loc, path) ==
    /\ Len(loc) = Len(path)
    /\ Len(loc) >= 1
    /\ \A k \in 1..Len(loc) :
          LET here == Prefix(loc, k)
              sibs == SiblingsOf(collection, here)
          IN  /\ sibs[loc[k]].name = path[k]
              /\ \A j \in 1..(loc[k] - 1) : sibs[j].name # path[k]
              /\ k < Len(loc) => sibs[loc[k]].isFolder

IsLeafAt(collection, loc) == ~ItemAt(collection.item, loc).isFolder

\* C1: a path that names, level by level, a chain of first-matching siblings
\* ending at a Leaf makes findItemByPath return that Leaf.
C1_ChainToLeafIsReturned ==
    navPc = "returned" =>
        \A loc \in Locations(navCollection) :
            (IsChainOf(navCollection, loc, navPath) /\ IsLeafAt(navCollection, loc))
                => navResult = Found(loc)

\* a nested Leaf was returned although a later sibling carries the same name
C1_Witness ==
    /\ navPc = "returned"
    /\ \E loc \in Locations(navCollection) :
          /\ IsChainOf(navCollection, loc, navPath)
          /\ IsLeafAt(navCollection, loc)
          /\ Len(loc) >= 2
          /\ \E j \in (loc[1] + 1)..Len(navCollection.item) :
                navCollection.item[j].name = navPath[1]
          /\ navResult = Found(loc)

\* C2: a path that reaches a Leaf and then carries one more segment, whatever
\* its name, makes findItemByPath return not-found.
C2_SegmentAfterLeafIsNotFound ==
    (/\ navPc = "returned"
     /\ Len(navPath) >= 2
     /\ \E loc \in Locations(navCollection) :
           /\ IsChainOf(navCollection, loc, Prefix(navPath, Len(navPath) - 1))
           /\ IsLeafAt(navCollection, loc))
        => navResult = NotFound

\* C3: the empty path makes findItemByPath return not-found.
C3_EmptyPathIsNotFound ==
    (navPc = "returned" /\ navPath = <<>>) => navResult = NotFound

\* the empty path was looked up in a collection that holds items
C3_Witness ==
    /\ navPc = "returned"
    /\ navPath = <<>>
    /\ navCollection.item # <<>>
    /\ navResult = NotFound

-----------------------------------------------------------------------------
(* Claims about the request executor.                                      *)

\* C4: executeRequest never fails outward: whatever the request document
\* and whichever step throws (preparation, fetch, reading the body), the
\* returned promise resolves to a RequestResponse and never rejects.
C4_NeverRejects ==
    /\ settled # "rejected"
    /\ execPc = "done" => (settled = "resolved" /\ result # NoResult)

\* reading the body failed for a document without its optional fields, and
\* the promise resolved
C4_Witness ==
    /\ execPc = "done"
    /\ thrownAt = "text"
    /\ request.header.kind = "absent"
    /\ request.body.mode = "absent"
    /\ request.auth.type = "absent"
    /\ request.url.kind = "absent"
    /\ settled = "resolved"

HeaderList == request.header.list

OutHeaders == outgoing.headers

\* the entries of request.auth.bearer keyed "token"
TokenEntries ==
    {i \in 1..Len(request.auth.bearer) : request.auth.bearer[i].key = "token"}

\* an outgoing header that the auth overlay or the body default explains
FromOverlay(k) ==
    \/ /\ k = "Authorization"
       /\ request.auth.type = "bearer"
       /\ \E i \in TokenEntries :
             OutHeaders[k] = "Bearer " \o request.auth.bearer[i].value
    \/ /\ k = "Content-Type"
       /\ request.body.mode = "raw"
       /\ request.body.raw # ""
       /\ OutHeaders[k] = "application/json"

\* C6: no disabled header contributes to the outgoing header set: every
\* key/value pair of the set comes from an enabled header of the list, from
\* the auth overlay or from the default Content-Type.
C6_DisabledHeadersNotSent ==
    outgoing.called =>
        \A k \in DOMAIN OutHeaders :
            \/ \E i \in 1..Len(HeaderList) :
                  /\ ~HeaderList[i].disabled
                  /\ HeaderList[i].key = k
                  /\ HeaderList[i].value = OutHeaders[k]
            \/ FromOverlay(k)

\* a disabled header with a key and a value was left out of the call
C6_Witness ==
    /\ outgoing.called
    /\ \E i \in 1..Len(HeaderList) :
          /\ HeaderList[i].disabled
          /\ HeaderList[i].key # ""
          /\ HeaderList[i].value # ""
          /\ HeaderList[i].key \notin DOMAIN OutHeaders

\* the outgoing set holds header i of the list: its key is there, with its
\* value unless a later enabled header of the same key or the auth overlay
\* has set the key since
HoldsHeader(i) ==
    /\ HeaderList[i].key \in DOMAIN OutHeaders
    /\ \/ OutHeaders[HeaderList[i].key] = HeaderList[i].value
       \/ \E j \in (i + 1)..Len(HeaderList) :
             /\ ~HeaderList[j].disabled
             /\ HeaderList[j].key = HeaderList[i].key
             /\ OutHeaders[HeaderList[i].key] = HeaderList[j].value
       \/ FromOverlay(HeaderList[i].key)

\* C7 as stated: every enabled header is copied into the outgoing header
\* set, also when its value is the empty string.
C7_Original_EveryEnabledHeaderSent ==
    outgoing.called =>
        \A i \in 1..Len(HeaderList) : ~HeaderList[i].disabled => HoldsHeader(i)

\* C7 as amended: every enabled header whose key and value are both
\* non-empty is copied into the outgoing header set, and an enabled header
\* with an empty key or an empty value sets nothing.
C7_EnabledNonEmptyHeaderSent ==
    outgoing.called =>
        \A i \in 1..Len(HeaderList) :
            ~HeaderList[i].disabled =>
                IF HeaderList[i].key # "" /\ HeaderList[i].value # ""
                THEN HoldsHeader(i)
                ELSE \/ HeaderList[i].key \notin DOMAIN OutHeaders
                     \/ OutHeaders[HeaderList[i].key] # ""

\* two enabled headers were sent, and an enabled header with an empty value
\* was dropped
C7_Witness ==
    /\ outgoing.called
    /\ Len(HeaderList) = 2
    /\ ~HeaderList[1].disabled /\ ~HeaderList[2].disabled
    /\ HeaderList[1].key = "Content-Type" /\ HeaderList[1].value = "v1"
    /\ HeaderList[2].key = "Authorization" /\ HeaderList[2].value = ""
    /\ DOMAIN OutHeaders = {"Content-Type"}
    /\ OutHeaders["Content-Type"] = "v1"

\* C8: with bearer auth and a non-empty token t the outgoing header set
\* holds Authorization valued "Bearer t", whatever Authorization header the
\* request's own list carries.
C8_BearerOverwritesAuthorization ==
    (/\ outgoing.called
     /\ request.auth.type = "bearer"
     /\ request.auth.hasBearer
     /\ TokenEntries # {}
     /\ \A i \in TokenEntries : request.auth.bearer[i].value # "")
        => /\ "Authorization" \in DOMAIN OutHeaders
           /\ \E i \in TokenEntries :
                 OutHeaders["Authorization"] = "Bearer " \o request.auth.bearer[i].value

\* the list's own enabled Authorization header was overwritten
C8_Witness ==
    /\ outgoing.called
    /\ request.auth.type = "bearer"
    /\ \E i \in 1..Len(HeaderList) :
          /\ ~HeaderList[i].disabled
          /\ HeaderList[i].key = "Authorization"
          /\ HeaderList[i].value = "v1"
    /\ OutHeaders["Authorization"] = "Bearer abc"

\* C9: a GET request never sends a body, whatever raw body is configured.
C9_GetSendsNoBody ==
    (outgoing.called /\ request.method = "GET") => ~outgoing.body.present

\* a GET request with a raw body was sent without it
C9_Witness ==
    /\ outgoing.called
    /\ request.method = "GET"
    /\ request.body.mode = "raw"
    /\ request.body.raw # ""
    /\ ~outgoing.body.present

\* C10: a response body that is not valid JSON yields the received status
\* with data equal to the raw text, not the status-0 error form.
C10_InvalidJsonIsRawText ==
    (execPc = "done" /\ thrownAt \in {"none", "parse"} /\ response.received
        /\ ~JSONParse(responseText).ok)
        => /\ result.status = response.status
           /\ result.statusText = response.statusText
           /\ result.data = [kind |-> "text", value |-> responseText]
           /\ result.status # 0

\* an HTML body came back with status 404
C10_Witness ==
    /\ execPc = "done"
    /\ thrownAt = "parse"
    /\ responseText = "<html>"
    /\ result.status = 404
    /\ result.data = [kind |-> "text", value |-> "<html>"]

-----------------------------------------------------------------------------
(* Collection mutators of PostmanApp: handleAddRequest, handleAddFolder,   *)
(* handleRequestChange, with handleRequestSelect to set the selection.     *)
(* A collection object is a record whose `item` is a reference into heap,  *)
(* so that `{...col}` (a copy of the record) shares the array with col.    *)

\* the content of a collections array: every object with its array read
\* through the heap h
Deep(set, h) ==
    [i \in 1..Len(set) |-> [id |-> set[i].id, name |-> set[i].name, item |-> h[set[i].item]]]

\* collection.item of a collection object, as findItemByPath reads it
TreeOf(col, h) == [item |-> h[col.item]]

RECURSIVE PushAt(_, _, _)
\* folder.item.push(newItem) for the folder at location loc below items;
\* items.push(newItem) when loc is <<>>
PushAt(items, loc, newItem) ==
    IF loc = <<>> THEN Append(items, newItem)
    ELSE [items EXCEPT ![loc[1]].item = PushAt(@, Tail(loc), newItem)]

RECURSIVE SetRequestAt(_, _, _)
\* item.request = newRequest for the item at location loc below items
SetRequestAt(items, loc, newRequest) ==
    IF Len(loc) = 1 THEN [items EXCEPT ![loc[1]].request = newRequest]
    ELSE [items EXCEPT ![loc[1]].item = SetRequestAt(@, Tail(loc), newRequest)]

\* the body of the map callback of handleAddRequest and handleAddFolder for
\* a collection whose id matches: the heap after it ran
AddToCollection(h, col, folderPath, newItem) ==
    IF folderPath = <<>>
    THEN [h EXCEPT ![col.item] = Append(@, newItem)]
    ELSE LET folder == findItemByPath(TreeOf(col, h), folderPath)
         IN  IF folder.found /\ ItemAt(h[col.item], folder.at).isFolder
             THEN [h EXCEPT ![col.item] = PushAt(@, folder.at, newItem)]
             ELSE h

RECURSIVE MapAdd(_, _, _, _, _)
\* collections.map(col => ...) of the two add handlers, from the element
\* after the first `done` ones: the heap after the whole map
MapAdd(set, h, id, folderPath, newItem) ==
    IF set = <<>> THEN h
    ELSE MapAdd(Tail(set),
                IF Head(set).id = id
                THEN AddToCollection(h, Head(set), folderPath, newItem)
                ELSE h,
                id, folderPath, newItem)

\* the body of the map callback of handleRequestChange for a collection
\* whose id matches
ChangeInCollection(h, col, path, newRequest) ==
    LET item == findItemByPath(TreeOf(col, h), path)
    IN  IF item.found /\ ItemAt(h[col.item], item.at).request # NoRequestDoc
        THEN [h EXCEPT ![col.item] = SetRequestAt(@, item.at, newRequest)]
        ELSE h

RECURSIVE MapChange(_, _, _, _, _)
MapChange(set, h, id, path, newRequest) ==
    IF set = <<>> THEN h
    ELSE MapChange(Tail(set),
                   IF Head(set).id = id
                   THEN ChangeInCollection(h, Head(set), path, newRequest)
                   ELSE h,
                   id, path, newRequest)

\* updatedCollections.find(c => c.info._postman_id === id) || null
FindCollection(set, id) ==
    IF \E i \in 1..Len(set) : set[i].id = id
    THEN set[CHOOSE i \in 1..Len(set) :
                /\ set[i].id = id
                /\ \A j \in 1..(i - 1) : set[j].id # id]
    ELSE NoCollection

\* the names leading to the item at location loc: TreeItem's currentPath
CurrentPath(items, loc) ==
    [k \in 1..Len(loc) |-> ItemAt(items, SubSeq(loc, 1, k)).name]

\* every folder path of at most MaxFolderPath names; <<>> is the call
\* without a folder path (the collection's own add buttons)
FolderPaths == UNION {[1..n -> Names] : n \in 0..MaxFolderPath}

\* what prompt() returns: a name, or "" when the dialog is cancelled or
\* left empty
PromptNames == {"", "a"}

\* the arrays a working set of the mutator specification starts from: the
\* array of the collection under test and the array of a second collection
MutateHeaps ==
    {<<f, <<createNewRequest("a")>>>> :
        f \in UNION {ForestsOfSize(n) : n \in 0..MaxTreeItems}}

\* the collection objects over these arrays: the collection under test, a
\* collection with another id, and a second import of the file of the
\* first (same id, its own array)
MutateSets ==
    LET T == [id |-> "c1", name |-> <<"T">>, item |-> 1]
        B == [id |-> "c2", name |-> <<"B">>, item |-> 2]
        D == [id |-> "c1", name |-> <<"T">>, item |-> 2]
    IN  {<<T, B>>, <<B, T>>, <<T, D>>}

MutateInit ==
    /\ SessionIdle
    /\ NavIdle
    /\ ExecIdle
    /\ MutIdle
    /\ JsonIdle
    /\ KvIdle
    /\ DirIdle
    /\ StoreIdle
    /\ SendIdle
    /\ heap \in MutateHeaps
    /\ collections \in MutateSets
    /\ activeCollection = NoCollection
    /\ activeRequest = NoRequestDoc
    /\ activeRequestPath = <<>>

\* the mutation handlers are followed for one call
NotCalledYet == lastOp.kind = "none"

\* the component state a handler is called in: the collections array, what
\* its objects hold, and the selection
Given ==
    [set |-> collections, content |-> Deep(collections, heap),
     selection |-> <<activeCollection, activeRequest, activeRequestPath>>]

\* the call of a handler
Call(kind, id, path, name) == [kind |-> kind, id |-> id, path |-> path, name |-> name]

\* handleRequestSelect(collection, item, path), called by TreeItem for a
\* rendered item that is no folder and carries a request
HandleRequestSelect ==
    /\ Rendered
    /\ ~CallSettled
    /\ \E i \in 1..Len(collections) :
         \E loc \in LocationsBelow(heap[collections[i].item]) :
            LET item == ItemAt(heap[collections[i].item], loc)
            IN  /\ ~item.isFolder
                /\ item.request # NoRequestDoc
                /\ activeCollection' = collections[i]
                /\ activeRequest' = item.request
                /\ activeRequestPath' = CurrentPath(heap[collections[i].item], loc)
    /\ shownResponse' = NoShown
    /\ UNCHANGED <<collections, heap, lastOp, given>>
    /\ UNCHANGED <<dir, storeVars, isLoading, inFlight>>
    /\ UNCHANGED outsideApp

\* handleAddRequest(collection, folderPath)
HandleAddRequest ==
    /\ NotCalledYet
    /\ \E i \in 1..Len(collections), folderPath \in FolderPaths, name \in PromptNames :
          /\ lastOp' = [kind |-> "addRequest", id |-> collections[i].id,
                        path |-> folderPath, name |-> name]
          /\ heap' = IF name = "" THEN heap
                     ELSE MapAdd(collections, heap, collections[i].id, folderPath,
                                 createNewRequest(name))
    /\ given' = Given
    /\ UNCHANGED <<collections, activeCollection, activeRequest, activeRequestPath>>
    /\ UNCHANGED <<dir, storeVars, sendVars>>
    /\ UNCHANGED outsideApp

\* handleAddFolder(collection, folderPath)
HandleAddFolder ==
    /\ NotCalledYet
    /\ \E i \in 1..Len(collections), folderPath \in FolderPaths, name \in PromptNames :
          /\ lastOp' = [kind |-> "addFolder", id |-> collections[i].id,
                        path |-> folderPath, name |-> name]
          /\ heap' = IF name = "" THEN heap
                     ELSE MapAdd(collections, heap, collections[i].id, folderPath,
                                 createNewFolder(name))
    /\ given' = Given
    /\ UNCHANGED <<collections, activeCollection, activeRequest, activeRequestPath>>
    /\ UNCHANGED <<dir, storeVars, sendVars>>
    /\ UNCHANGED outsideApp

\* handleRequestChange(newRequest), called by the editor of the active
\* request
HandleRequestChange ==
    /\ NotCalledYet
    /\ activeCollection # NoCollection
    /\ activeRequestPath # <<>>
    /\ lastOp' = [kind |-> "requestChange", id |-> activeCollection.id,
                  path |-> activeRequestPath, name |-> ""]
    /\ heap' = MapChange(collections, heap, activeCollection.id, activeRequestPath,
                         EditedRequestDoc)
    /\ given' = Given
    /\ activeRequest' = EditedRequestDoc
    /\ activeCollection' = FindCollection(collections, activeCollection.id)
    /\ UNCHANGED <<collections, activeRequestPath>>
    /\ UNCHANGED <<dir, storeVars, sendVars>>
    /\ UNCHANGED outsideApp

MutateNext ==
    \/ HandleRequestSelect
    \/ HandleAddRequest
    \/ HandleAddFolder
    \/ HandleRequestChange

SpecMutate == MutateInit /\ [][MutateNext]_vars

-----------------------------------------------------------------------------
(* Claims about the collection mutators.                                   *)

\* the folder path resolves in the collection: it names, level by level, a
\* chain of first-matching folders
ResolvesToFolder(collection, path) ==
    \E loc \in Locations(collection) :
        /\ IsChainOf(collection, loc, path)
        /\ ~IsLeafAt(collection, loc)

\* the last call was an add that got a name and a folder path
AddWithFolderPath ==
    /\ lastOp.kind \in {"addRequest", "addFolder"}
    /\ lastOp.name # ""
    /\ lastOp.path # <<>>

\* C11: adding a request or a folder with a folder path that does not
\* resolve in the targeted collection (no such folder, or the path resolves
\* to a Leaf) leaves the collection set as it was.
C11_UnresolvedFolderPathIsNoOp ==
    (/\ AddWithFolderPath
     /\ \A i \in 1..Len(given.set) :
           given.set[i].id = lastOp.id
               => ~ResolvesToFolder([item |-> given.content[i].item], lastOp.path))
        => Deep(collections, heap) = given.content

\* the last call was a mutation that went through to setCollections
Mutated ==
    \/ lastOp.kind \in {"addRequest", "addFolder"} /\ lastOp.name # ""
    \/ lastOp.kind = "requestChange"

\* C14: add-request, add-folder and replace-request are pure: the set of
\* collections the handler was given, the targeted collection's previous
\* item sequences included, holds after the call what it held before it,
\* and the collections that are not the target are passed through as the
\* same objects.
C14_MutatorsArePure ==
    Mutated =>
        /\ Deep(given.set, heap) = given.content
        /\ \A i \in 1..Len(given.set) :
              given.set[i].id # lastOp.id => collections[i] = given.set[i]

\* the item the last add created
AddedItem ==
    IF lastOp.kind = "addRequest" THEN createNewRequest(lastOp.name)
    ELSE createNewFolder(lastOp.name)

\* the target of the last add exists in collection i of the given set: the
\* root, or the folder its path resolves to
TargetResolves(i) ==
    \/ lastOp.path = <<>>
    \/ ResolvesToFolder([item |-> given.content[i].item], lastOp.path)

\* the items of collection i of the given set with the new item as the
\* last child of the target
AppendedToTarget(i) ==
    LET tree == [item |-> given.content[i].item]
    IN  IF lastOp.path = <<>> THEN Append(tree.item, AddedItem)
        ELSE PushAt(tree.item,
                    CHOOSE loc \in Locations(tree) :
                        IsChainOf(tree, loc, lastOp.path) /\ ~IsLeafAt(tree, loc),
                    AddedItem)

\* C27: adding a request or a folder at the root, or at a path that
\* resolves to a Folder, appends exactly one new item as the last child of
\* that target; the target's existing children keep their order and every
\* other node of every collection is unchanged
C27_AddAppendsExactlyOneItem ==
    (lastOp.kind \in {"addRequest", "addFolder"} /\ lastOp.name # "")
        => \E i \in 1..Len(given.set) :
              /\ given.set[i].id = lastOp.id
              /\ TargetResolves(i)
                    => \A j \in 1..Len(collections) :
                          heap[collections[j].item] =
                             IF j = i THEN AppendedToTarget(i) ELSE given.content[j].item

-----------------------------------------------------------------------------
(* JSON text.  A JavaScript value of a collection document is a string, a  *)
(* boolean, an array or an object with its members in insertion order.  A  *)
(* text is a sequence of characters; a run of ordinary characters that is  *)
(* never split (a key, a literal, an id) is written as one character.      *)

JStr(s) == [t |-> "str", s |-> s, b |-> FALSE, a |-> <<>>]

JBool(b) == [t |-> "bool", s |-> <<>>, b |-> b, a |-> <<>>]

JArr(a) == [t |-> "arr", s |-> <<>>, b |-> FALSE, a |-> a]

JNull == [t |-> "null", s |-> <<>>, b |-> FALSE, a |-> <<>>]

\* an object; its members are records [k |-> key, v |-> value]
JObj(members) == [t |-> "obj", s |-> <<>>, b |-> FALSE, a |-> members]

Member(k, v) == [k |-> <<k>>, v |-> v]

\* the mutant: no character is escaped
QuoteNothing(s) == s

RECURSIVE Quote(_)
\* the characters of a string as JSON.stringify writes them between the
\* quotes: `"`, `\` and the line feed are escaped
Quote(s) ==
    IF s = <<>> THEN <<>>
    ELSE (CASE Head(s) = "\"" -> <<"\\", "\"">>
            [] Head(s) = "\\" -> <<"\\", "\\">>
            [] Head(s) = "\n" -> <<"\\", "n">>
            [] OTHER          -> <<Head(s)>>) \o Quote(Tail(s))

\* the line break and the indentation of JSON.stringify(value, null, 2) at
\* nesting depth d
Indent(d) == <<"\n">> \o [i \in 1..(2 * d) |-> " "]

RECURSIVE StringifyValue(_, _), StringifyList(_, _, _)
\* JSON.stringify(v, null, 2) for a value at nesting depth d
StringifyValue(v, d) ==
    CASE v.t = "str"  -> <<"\"">> \o Quote(v.s) \o <<"\"">>
      [] v.t = "bool" -> IF v.b THEN <<"true">> ELSE <<"false">>
      [] v.t = "null" -> <<"null">>
      [] v.t = "arr"  -> IF v.a = <<>> THEN <<"[", "]">>
                         ELSE <<"[">> \o StringifyList(v.a, d + 1, FALSE)
                                \o Indent(d) \o <<"]">>
      [] v.t = "obj"  -> IF v.a = <<>> THEN <<"{", "}">>
                         ELSE <<"{">> \o StringifyList(v.a, d + 1, TRUE)
                                \o Indent(d) \o <<"}">>

\* the elements of an array, or the members of an object, one per line
StringifyList(list, d, members) ==
    IF list = <<>> THEN <<>>
    ELSE Indent(d)
           \o (IF members
               THEN <<"\"">> \o Quote(Head(list).k) \o <<"\"", ":", " ">>
                      \o StringifyValue(Head(list).v, d)
               ELSE StringifyValue(Head(list), d))
           \o (IF Len(list) > 1 THEN <<",">> ELSE <<>>)
           \o StringifyList(Tail(list), d, members)

\* JSON.stringify(value, null, 2)
Stringify(v) == StringifyValue(v, 0)

\* the result of a parse that throws a SyntaxError
SyntaxError == [ok |-> FALSE, v |-> JStr(<<>>), next |-> 0]

Parsed(v, next) == [ok |-> TRUE, v |-> v, next |-> next]

RECURSIVE SkipSpace(_, _)
\* the first position from i on that holds no white space
SkipSpace(text, i) ==
    IF i <= Len(text) /\ text[i] \in {" ", "\n"} THEN SkipSpace(text, i + 1) ELSE i

RECURSIVE ScanString(_, _, _)
\* the characters of a string from position i (after the opening quote) to
\* its closing quote, with the escapes undone
ScanString(text, i, acc) ==
    IF i > Len(text) \/ text[i] = "\n" THEN SyntaxError
    ELSE IF text[i] = "\"" THEN Parsed(JStr(acc), i + 1)
    ELSE IF text[i] = "\\"
         THEN IF i + 1 > Len(text) THEN SyntaxError
              ELSE CASE text[i + 1] = "\"" -> ScanString(text, i + 2, Append(acc, "\""))
                     [] text[i + 1] = "\\" -> ScanString(text, i + 2, Append(acc, "\\"))
                     [] text[i + 1] = "n"  -> ScanString(text, i + 2, Append(acc, "\n"))
                     [] OTHER              -> SyntaxError
    ELSE ScanString(text, i + 1, Append(acc, text[i]))

RECURSIVE ParseValue(_, _), ParseElements(_, _, _), ParseMembers(_, _, _)
\* JSON.parse: the value that starts at position i, white space skipped
ParseValue(text, i) ==
    LET j == SkipSpace(text, i)
    IN  IF j > Len(text) THEN SyntaxError
        ELSE CASE text[j] = "\""    -> ScanString(text, j + 1, <<>>)
               [] text[j] = "true"  -> Parsed(JBool(TRUE), j + 1)
               [] text[j] = "false" -> Parsed(JBool(FALSE), j + 1)
               [] text[j] = "null"  -> Parsed(JNull, j + 1)
               [] text[j] = "["     ->
                    LET k == SkipSpace(text, j + 1)
                    IN  IF k <= Len(text) /\ text[k] = "]"
                        THEN Parsed(JArr(<<>>), k + 1)
                        ELSE ParseElements(text, j + 1, <<>>)
               [] text[j] = "{"     ->
                    LET k == SkipSpace(text, j + 1)
                    IN  IF k <= Len(text) /\ text[k] = "}"
                        THEN Parsed(JObj(<<>>), k + 1)
                        ELSE ParseMembers(text, j + 1, <<>>)
               [] OTHER             -> SyntaxError

\* the elements of an array from position i on, up to its `]`
ParseElements(text, i, acc) ==
    LET element == ParseValue(text, i)
        j == SkipSpace(text, element.next)
    IN  IF ~element.ok \/ j > Len(text) THEN SyntaxError
        ELSE IF text[j] = "," THEN ParseElements(text, j + 1, Append(acc, element.v))
        ELSE IF text[j] = "]" THEN Parsed(JArr(Append(acc, element.v)), j + 1)
        ELSE SyntaxError

\* the members of an object from position i on, up to its `}`
ParseMembers(text, i, acc) ==
    LET j == SkipSpace(text, i)
        key == IF j <= Len(text) /\ text[j] = "\""
               THEN ScanString(text, j + 1, <<>>) ELSE SyntaxError
        c == SkipSpace(text, key.next)
        value == IF key.ok /\ c <= Len(text) /\ text[c] = ":"
                 THEN ParseValue(text, c + 1) ELSE SyntaxError
        e == SkipSpace(text, value.next)
        member == [k |-> key.v.s, v |-> value.v]
    IN  IF ~value.ok \/ e > Len(text) THEN SyntaxError
        ELSE IF text[e] = "," THEN ParseMembers(text, e + 1, Append(acc, member))
        ELSE IF text[e] = "}" THEN Parsed(JObj(Append(acc, member)), e + 1)
        ELSE SyntaxError

\* JSON.parse(text): one value and nothing after it
JsonParse(text) ==
    LET value == ParseValue(text, 1)
    IN  IF value.ok /\ SkipSpace(text, value.next) = Len(text) + 1
        THEN value ELSE SyntaxError

\* the request documents as JavaScript values
RequestValue(doc) ==
    IF doc = NewRequestDoc
    THEN JObj(<<Member("method", JStr(<<"GET">>)),
                Member("header", JArr(<<>>)),
                Member("url", JStr(<<>>)),
                Member("auth", JObj(<<Member("type", JStr(<<"noauth">>))>>))>>)
    ELSE JObj(<<Member("method", JStr(<<"POST">>)),
                Member("header",
                       JArr(<<JObj(<<Member("key", JStr(<<"Content-Type">>)),
                                     Member("value", JStr(<<"text/plain">>)),
                                     Member("disabled", JBool(TRUE)),
                                     Member("type", JStr(<<"text">>))>>)>>)),
                Member("url", JStr(<<"https://host/path">>)),
                Member("auth", JObj(<<Member("type", JStr(<<"noauth">>))>>)),
                Member("body",
                       JObj(<<Member("mode", JStr(<<"raw">>)),
                              Member("raw", JStr(<<"{", "\n", "\"", "k", "\"", ":",
                                                   " ", "\"", "\\", "\"", "}">>)),
                              Member("options",
                                     JObj(<<Member("raw",
                                         JObj(<<Member("language", JStr(<<"json">>))>>))>>))>>))>>)

RECURSIVE ItemValues(_)
\* an item array as a JavaScript value
ItemValues(items) ==
    JArr([i \in 1..Len(items) |->
            IF items[i].isFolder
            THEN JObj(<<Member("name", JStr(<<items[i].name>>)),
                        Member("item", ItemValues(items[i].item))>>)
            ELSE JObj(<<Member("name", JStr(<<items[i].name>>)),
                        Member("request", RequestValue(items[i].request)),
                        Member("response", JArr(<<>>))>>)])

\* a collection (its id, its name and its item array) as a JavaScript value
CollectionValue(id, name, items) ==
    JObj(<<Member("info",
                  JObj(<<Member("_postman_id", JStr(<<id>>)),
                         Member("name", JStr(name)),
                         Member("schema", JStr(<<"https://schema.getpostman.com/json/collection/v2.1.0/collection.json">>))>>)),
           Member("item", ItemValues(items))>>)

\* exportCollection(collection)
exportCollection(collection) == Stringify(collection)

\* parsePostmanCollection(json): a cast
parsePostmanCollection(json) == json

-----------------------------------------------------------------------------
(* SpecJson: exportCollection, then JSON.parse and parsePostmanCollection, *)
(* applied to every bounded collection document.                           *)

\* the characters of collection names: an ordinary one and the two that
\* JSON text escapes
NameChars == {"a", "\"", "\\"}

\* every collection name of at most MaxNameLen characters
CollectionNames == UNION {[1..n -> NameChars] : n \in 0..MaxNameLen}

RECURSIVE WithRequest(_, _)
\* the item array with every request item carrying the request document
WithRequest(items, doc) ==
    [i \in 1..Len(items) |->
        IF items[i].isFolder
        THEN [items[i] EXCEPT !.item = WithRequest(items[i].item, doc)]
        ELSE [items[i] EXCEPT !.request = doc]]

\* the collection documents of the round trip
JsonDocuments ==
    {CollectionValue("c1", name, WithRequest(f, doc)) :
        name \in CollectionNames,
        f \in UNION {ForestsOfSize(n) : n \in 0..MaxTreeItems},
        doc \in {NewRequestDoc, EditedRequestDoc}}

JsonInit ==
    /\ SessionIdle
    /\ NavIdle
    /\ ExecIdle
    /\ AppIdle
    /\ MutIdle
    /\ KvIdle
    /\ DirIdle
    /\ StoreIdle
    /\ SendIdle
    /\ jsonDoc \in JsonDocuments
    /\ jsonText = <<>>
    /\ jsonParsed = SyntaxError
    /\ jsonPc = "export"

\* exportCollection(collection), as handleExport and saveCollectionToFolder
\* call it
ExportCollection ==
    /\ jsonPc = "export"
    /\ jsonText' = exportCollection(jsonDoc)
    /\ jsonPc' = "parse"
    /\ UNCHANGED <<jsonDoc, jsonParsed>>
    /\ UNCHANGED outsideJson

\* parsePostmanCollection(JSON.parse(text)), as the import and the folder
\* load call it
ParseCollection ==
    /\ jsonPc = "parse"
    /\ jsonParsed' = LET json == JsonParse(jsonText)
                     IN  IF json.ok THEN Parsed(parsePostmanCollection(json.v), json.next)
                         ELSE SyntaxError
    /\ jsonPc' = "parsed"
    /\ UNCHANGED <<jsonDoc, jsonText>>
    /\ UNCHANGED outsideJson

JsonNext ==
    \/ ExportCollection
    \/ ParseCollection

SpecJson == JsonInit /\ [][JsonNext]_vars

\* C15: parsing the text exportCollection made of a collection, and passing
\* the value through parsePostmanCollection, yields a collection equal to
\* the one exported.
C15_ExportThenParseIsIdentity ==
    jsonPc = "parsed" => jsonParsed.ok /\ jsonParsed.v = jsonDoc

\* a document with a nested folder, an edited request (a boolean, nested
\* objects, a body with quotes and a line feed) and a name that needs
\* escaping went through the round trip
C15_Witness ==
    /\ jsonPc = "parsed"
    /\ jsonParsed.ok
    /\ \E name \in CollectionNames :
          /\ \E i \in 1..Len(name) : name[i] \in {"\"", "\\"}
          /\ jsonDoc = CollectionValue("c1", name,
                           <<FolderOf("a", <<[createNewRequest("b") EXCEPT
                                                 !.request = EditedRequestDoc]>>)>>)

-----------------------------------------------------------------------------
(* SpecKV: the key-value backend, saveToLocalStorage and                   *)
(* loadFromLocalStorage over localStorage.                                 *)

\* the keys the program uses
KvKeys == {"postman-collections", "collections-folder-handle"}

\* getItem's null: the key has no entry
NoEntry == <<"(no entry)">>

\* the values the program saves: collection arrays, and a directory handle
\* (an object without own enumerable properties)
KvValues ==
    {JArr(<<>>),
     JArr(<<CollectionValue("c1", <<"a">>, <<createNewRequest("a")>>)>>),
     JObj(<<>>)}

\* the defaults the program passes to loadFromLocalStorage
KvDefaults == {JArr(<<>>), JNull}

\* what an entry may hold when the program starts: nothing, the empty
\* string, text that is no JSON, or JSON text
KvTexts == {NoEntry, <<>>, <<"{", "\"", "a">>, <<"null">>} \cup {Stringify(v) : v \in KvValues}

\* what stops a call: nothing, the storage refusing the access
\* (SecurityError, QuotaExceededError), or JSON.parse throwing
NoKvCall ==
    [op |-> "none", key |-> "", threw |-> "none", outcome |-> "none",
     value |-> JNull, default |-> JNull, before |-> <<>>]

\* the mutant: the catch block throws the error again
RethrowStorageError(fallback) == [outcome |-> "threw", value |-> JNull]

\* `catch (error) { console.error(...); return defaultValue }` of
\* loadFromLocalStorage, `catch (error) { console.error(...) }` of
\* saveToLocalStorage
CatchStorageError(fallback) == [outcome |-> "returned", value |-> fallback]

KvInit ==
    /\ SessionIdle
    /\ NavIdle
    /\ ExecIdle
    /\ AppIdle
    /\ MutIdle
    /\ JsonIdle
    /\ DirIdle
    /\ StoreIdle
    /\ SendIdle
    /\ kvStore \in [KvKeys -> KvTexts]
    /\ kvCall = NoKvCall

\* saveToLocalStorage(key, data) when setItem stores the text
SaveToLocalStorage ==
    \E key \in KvKeys, data \in KvValues :
        /\ kvStore' = [kvStore EXCEPT ![key] = Stringify(data)]
        /\ kvCall' = [op |-> "save", key |-> key, threw |-> "none",
                      outcome |-> "returned", value |-> data, default |-> JNull,
                      before |-> kvStore]
        /\ UNCHANGED outsideKV

\* saveToLocalStorage(key, data) when localStorage or setItem throws
SaveToLocalStorageFails ==
    \E key \in KvKeys, data \in KvValues :
        /\ kvStore' = kvStore
        /\ kvCall' = [op |-> "save", key |-> key, threw |-> "setItem",
                      outcome |-> CatchStorageError(JNull).outcome,
                      value |-> data, default |-> JNull, before |-> kvStore]
        /\ UNCHANGED outsideKV

\* loadFromLocalStorage(key, defaultValue) when getItem returns
LoadFromLocalStorage ==
    \E key \in KvKeys, defaultValue \in KvDefaults :
        LET item == kvStore[key]
            json == JsonParse(item)
            ended == IF item = NoEntry \/ item = <<>>
                     THEN [outcome |-> "returned", value |-> defaultValue]
                     ELSE IF json.ok THEN [outcome |-> "returned", value |-> json.v]
                     ELSE CatchStorageError(defaultValue)
        IN  /\ kvCall' = [op |-> "load", key |-> key,
                          threw |-> IF item # NoEntry /\ item # <<>> /\ ~json.ok
                                    THEN "parse" ELSE "none",
                          outcome |-> ended.outcome, value |-> ended.value,
                          default |-> defaultValue, before |-> kvStore]
            /\ UNCHANGED kvStore
            /\ UNCHANGED outsideKV

\* loadFromLocalStorage(key, defaultValue) when localStorage or getItem
\* throws
LoadFromLocalStorageFails ==
    \E key \in KvKeys, defaultValue \in KvDefaults :
        /\ kvCall' = [op |-> "load", key |-> key, threw |-> "getItem",
                      outcome |-> CatchStorageError(defaultValue).outcome,
                      value |-> CatchStorageError(defaultValue).value,
                      default |-> defaultValue, before |-> kvStore]
        /\ UNCHANGED kvStore
        /\ UNCHANGED outsideKV

KvNext ==
    \/ SaveToLocalStorage
    \/ SaveToLocalStorageFails
    \/ LoadFromLocalStorage
    \/ LoadFromLocalStorageFails

SpecKV == KvInit /\ [][KvNext]_vars

\* C16: the key-value backend never throws: when reading, parsing or
\* writing the store fails, loadFromLocalStorage returns the default it was
\* given and saveToLocalStorage leaves the store as it was and returns.
C16_KeyValueBackendNeverThrows ==
    kvCall.op # "none" =>
        /\ kvCall.outcome = "returned"
        /\ (kvCall.op = "load" /\ kvCall.threw # "none") => kvCall.value = kvCall.default
        /\ (kvCall.op = "save" /\ kvCall.threw # "none") => kvStore = kvCall.before

\* a load met text that is no JSON and returned the default
C16_Witness ==
    /\ kvCall.op = "load"
    /\ kvCall.threw = "parse"
    /\ kvCall.outcome = "returned"
    /\ kvCall.value = kvCall.default

-----------------------------------------------------------------------------
(* Directory backend: the directory.  An entry has a name (a sequence of   *)
(* characters; the suffix ".collection.json" is one character), a kind and *)
(* for a file its text.                                                    *)

Suffix == ".collection.json"

File(name, text) == [name |-> name, kind |-> "file", text |-> text]

Directory(name) == [name |-> name, kind |-> "directory", text |-> <<>>]

\* name.endsWith('.collection.json')
EndsWithSuffix(name) == name # <<>> /\ name[Len(name)] = Suffix

\* the entries a listed directory may hold: two collection files, a file
\* cut off in the middle of its text, an empty file, a file of JSON that is
\* no collection, a directory carrying the suffix, and a collection file
\* without the suffix
ListedEntries ==
    {File(<<"a", Suffix>>, exportCollection(CollectionValue("c1", <<"a">>, <<createNewRequest("a")>>))),
     File(<<"b", Suffix>>, exportCollection(CollectionValue("c2", <<"b">>, <<>>))),
     File(<<"c", Suffix>>, <<"{", "\n", " ", " ", "\"", "info", "\"", ":">>),
     File(<<"d", Suffix>>, <<>>),
     File(<<"e", Suffix>>, <<"{", "}">>),
     Directory(<<"f", Suffix>>),
     File(<<"g", ".json">>, exportCollection(CollectionValue("c3", <<"g">>, <<>>)))}

\* every directory of at most MaxEntries entries with different names
ListedDirectories ==
    {d \in UNION {[1..n -> ListedEntries] : n \in 0..MaxEntries} :
        \A i, j \in 1..Len(d) : i # j => d[i].name # d[j].name}

\* the mutant: the error of an entry is thrown on to the outer catch, which
\* ends the loop
RethrowEntryError(call) == [call EXCEPT !.pc = "returned"]

\* `catch (error) { console.error(`Failed to load collection ...`) }`: the
\* loop goes on with the next entry
CatchEntryError(call) == [call EXCEPT !.pos = @ + 1]

ListInit ==
    /\ SessionIdle
    /\ NavIdle
    /\ ExecIdle
    /\ AppIdle
    /\ MutIdle
    /\ JsonIdle
    /\ KvIdle
    /\ StoreIdle
    /\ SendIdle
    /\ dir \in ListedDirectories
    /\ listing = [NotListing EXCEPT !.pc = "iterating", !.pos = 1]

\* one turn of the for-await loop in which getFile() and text() resolve:
\* the entry is filtered, read, parsed and pushed
LoadEntry ==
    /\ listing.pc = "iterating"
    /\ listing.pos <= Len(dir)
    /\ LET entry == dir[listing.pos]
           json == JsonParse(entry.text)
       IN  listing' =
             IF entry.kind = "file" /\ EndsWithSuffix(entry.name)
             THEN IF json.ok
                  THEN [listing EXCEPT
                           !.collections = Append(@, parsePostmanCollection(json.v)),
                           !.pos = @ + 1]
                  ELSE CatchEntryError(listing)
             ELSE [listing EXCEPT !.pos = @ + 1]
    /\ UNCHANGED dir
    /\ UNCHANGED outsideList

\* one turn of the loop in which getFile() or text() rejects
LoadEntryReadFails ==
    /\ listing.pc = "iterating"
    /\ listing.pos <= Len(dir)
    /\ dir[listing.pos].kind = "file"
    /\ EndsWithSuffix(dir[listing.pos].name)
    /\ listing' = CatchEntryError([listing EXCEPT !.readFailed = @ \cup {listing.pos}])
    /\ UNCHANGED dir
    /\ UNCHANGED outsideList

\* dirHandle.entries() throws (no permission, no such method): the outer
\* catch logs and the function returns what it has
EntriesThrows ==
    /\ listing.pc = "iterating"
    /\ listing' = [listing EXCEPT !.pc = "returned", !.cutShort = TRUE]
    /\ UNCHANGED dir
    /\ UNCHANGED outsideList

\* the loop is through: `return collections`
ListReturns ==
    /\ listing.pc = "iterating"
    /\ listing.pos > Len(dir)
    /\ listing' = [listing EXCEPT !.pc = "returned"]
    /\ UNCHANGED dir
    /\ UNCHANGED outsideList

ListNext ==
    \/ LoadEntry
    \/ LoadEntryReadFails
    \/ EntriesThrows
    \/ ListReturns

SpecList == ListInit /\ [][ListNext]_vars

-----------------------------------------------------------------------------
(* Claims about the directory listing.                                     *)

\* the entry at position i is a '.collection.json' file whose read and
\* parse succeed
Loads(i) ==
    /\ dir[i].kind = "file"
    /\ EndsWithSuffix(dir[i].name)
    /\ i \notin listing.readFailed
    /\ JsonParse(dir[i].text).ok

\* the entry at position i is a '.collection.json' file whose read or
\* parse fails
FailsToLoad(i) ==
    /\ dir[i].kind = "file"
    /\ EndsWithSuffix(dir[i].name)
    /\ i \in listing.readFailed \/ ~JsonParse(dir[i].text).ok

RECURSIVE LoadedUpTo(_)
\* the collections of the entries up to position n that load, in order
LoadedUpTo(n) ==
    IF n = 0 THEN <<>>
    ELSE IF Loads(n) THEN Append(LoadedUpTo(n - 1), JsonParse(dir[n].text).v)
    ELSE LoadedUpTo(n - 1)

\* C13: listing a directory skips every '.collection.json' entry whose read
\* or parse fails and returns the collections of all the other entries: a
\* failing entry neither ends the enumeration nor empties the result.
C13_FailingEntriesAreSkipped ==
    (listing.pc = "returned" /\ ~listing.cutShort) =>
        /\ listing.collections = LoadedUpTo(Len(dir))
        /\ \A i \in 1..Len(dir) :
              Loads(i) => \E k \in 1..Len(listing.collections) :
                              listing.collections[k] = JsonParse(dir[i].text).v

\* three entries were listed to the end: a collection, then an entry that
\* failed (its text is no JSON, or its read threw), then a collection, and
\* the two collections were returned
C13_Witness ==
    /\ listing.pc = "returned"
    /\ ~listing.cutShort
    /\ Len(dir) = 3
    /\ listing.pos = 4
    /\ Loads(1) /\ FailsToLoad(2) /\ Loads(3)
    /\ Len(listing.collections) = 2

-----------------------------------------------------------------------------
(* Directory backend: file names and the operations of the directory       *)
(* handle.                                                                 *)

\* the characters of the ranges a-z, A-Z and 0-9 in use
LowerCase == {"a"}

UpperCase == {"Z"}

Digits == {"7"}

\* the character matches /[^a-zA-Z0-9-_]/
IsReplaced(c) == c \notin (LowerCase \cup UpperCase \cup Digits \cup {"-", "_"})

\* name.replace(/[^a-zA-Z0-9-_]/g, '_')
Sanitize(name) == [i \in 1..Len(name) |-> IF IsReplaced(name[i]) THEN "_" ELSE name[i]]

\* the file name of saveCollectionToFolder
SaveFileName(collection) == Append(Sanitize(collection.name), Suffix)

\* the mutant: the name is used as it is
DeleteFileNameAsIs(collectionName) == Append(collectionName, Suffix)

\* the file name of deleteCollectionFromFolder
DeleteFileName(collectionName) == Append(Sanitize(collectionName), Suffix)

HasEntry(d, name) == \E i \in 1..Len(d) : d[i].name = name

EntryIndex(d, name) == CHOOSE i \in 1..Len(d) : d[i].name = name

\* dirHandle.getFileHandle(fileName, { create: true }): a missing file is
\* created empty
GetFileHandle(d, name) == IF HasEntry(d, name) THEN d ELSE Append(d, File(name, <<>>))

\* writable.close(): what was written becomes the content of the file
CloseWritable(d, name, text) ==
    IF HasEntry(d, name) THEN [d EXCEPT ![EntryIndex(d, name)].text = text]
    ELSE Append(d, File(name, text))

\* a call of a pass of the auto-save effect has returned or thrown
SaveSettled(save) == save.pc \in {"returned", "threw"}

\* the collection objects the running calls of the passes hold
Saving == {saves[k].collection : k \in {j \in 1..Len(saves) : ~SaveSettled(saves[j])}}

\* a save of the auto-save effect holds an open writable on the file;
\* removeEntry rejects while one is open
WritableOpen(name) ==
    \E k \in 1..Len(saves) : saves[k].fileName = name /\ saves[k].pc \in {"write", "close"}

\* dirHandle.removeEntry(fileName)
RemoveEntry(d, name) ==
    LET Others(e) == e.name # name
    IN  SelectSeq(d, Others)

-----------------------------------------------------------------------------
(* The working set: creating, importing and deleting collections, and the  *)
(* calls these make on the directory backend.                              *)

\* a reference no array has yet
NewRef(h) ==
    CHOOSE r \in 1..(Cardinality(DOMAIN h) + 1) :
        r \notin DOMAIN h /\ \A q \in 1..(r - 1) : q \in DOMAIN h

\* the heap with a new array holding items
Allocate(h, items) ==
    [x \in DOMAIN h \cup {NewRef(h)} |-> IF x = NewRef(h) THEN items ELSE h[x]]

\* the heap without the arrays no object in `live` refers to
Collect(h, live) == [x \in DOMAIN h \cap {c.item : c \in live} |-> h[x]]

\* the collection objects of an array
Elements(set) == {set[i] : i \in 1..Len(set)}

\* the ids generateId returns, in the order it returns them
GeneratedIds == <<"g1", "g2", "g3", "g4", "g5", "g6">>

\* generateId(): an id no collection object carries
generateId ==
    LET inUse == {c.id : c \in Elements(collections) \cup {activeCollection, dirTask.collection}}
    IN  GeneratedIds[CHOOSE k \in 1..Len(GeneratedIds) :
                        /\ GeneratedIds[k] \notin inUse
                        /\ \A j \in 1..(k - 1) : GeneratedIds[j] \in inUse]

\* the names typed into the prompt of handleCreateCollection
PromptedNames == {<<"a", "Z", "7", "-", "_">>}

\* the value of the member `key` of an object
Field(v, key) == v.a[CHOOSE i \in 1..Len(v.a) : v.a[i].k = <<key>>].v

HasField(v, key) == v.t = "obj" /\ \E i \in 1..Len(v.a) : v.a[i].k = <<key>>

\* the request document a value is
RequestDocOf(v) == IF v = RequestValue(NewRequestDoc) THEN NewRequestDoc ELSE EditedRequestDoc

RECURSIVE ItemsOfValue(_)
\* the item array a value is
ItemsOfValue(v) ==
    [i \in 1..Len(v.a) |->
        IF HasField(v.a[i], "item")
        THEN FolderOf(Field(v.a[i], "name").s[1], ItemsOfValue(Field(v.a[i], "item")))
        ELSE [createNewRequest(Field(v.a[i], "name").s[1]) EXCEPT
                 !.request = RequestDocOf(Field(v.a[i], "request"))]]

\* the collection object a parsed document is, its array at reference ref
CollectionObject(v, ref) ==
    [id |-> Field(Field(v, "info"), "_postman_id").s[1],
     name |-> Field(Field(v, "info"), "name").s,
     item |-> ref]

\* the document a collection object is, read through the heap h
DocumentOf(collection, h) ==
    CollectionValue(collection.id, collection.name, h[collection.item])

\* the files the user uploads: an exported collection, a file that is no
\* JSON, and the JSON document `{}`
UploadedFiles ==
    {exportCollection(CollectionValue("f1", <<"a", "Z", "7", "-", ".">>, <<createNewRequest("a")>>)),
     <<"<", "html", ">">>,
     Stringify(JObj(<<>>))}

\* createSampleCollection()
SampleCollection ==
    CollectionValue("sample-collection-id", <<"S", "a", " ", "A">>,
                    <<[createNewRequest("a") EXCEPT !.request = EditedRequestDoc],
                      [createNewRequest("b") EXCEPT !.request = EditedRequestDoc]>>)

\* the collection the selected folder holds when the session starts
StoredCollection ==
    CollectionValue("f0", <<"a", "Z", "7", "-", " ">>, <<createNewRequest("a")>>)

\* the states after the mount effect: no folder handle and the sample
\* collection (with and without directory-picker support), an empty
\* folder, a folder with one collection file
StoreStarts ==
    {[usingFileSystem |-> fs, folderHandle |-> FALSE, dir |-> <<>>,
      collections |-> <<CollectionObject(SampleCollection, 1)>>,
      heap |-> <<ItemsOfValue(Field(SampleCollection, "item"))>>] : fs \in BOOLEAN}
    \cup
    {[usingFileSystem |-> TRUE, folderHandle |-> TRUE, dir |-> <<>>,
      collections |-> <<>>, heap |-> <<>>],
     [usingFileSystem |-> TRUE, folderHandle |-> TRUE,
      dir |-> <<File(SaveFileName(CollectionObject(StoredCollection, 1)),
                     exportCollection(StoredCollection))>>,
      collections |-> <<CollectionObject(StoredCollection, 1)>>,
      heap |-> <<ItemsOfValue(Field(StoredCollection, "item"))>>]}

StoreInit ==
    /\ SessionIdle
    /\ NavIdle
    /\ ExecIdle
    /\ JsonIdle
    /\ KvIdle
    /\ MutIdle
    /\ SendIdle
    /\ listing = NotListing
    /\ \E start \in StoreStarts :
          /\ usingFileSystem = start.usingFileSystem
          /\ folderHandle = start.folderHandle
          /\ dir = start.dir
          /\ collections = start.collections
          /\ heap = start.heap
    /\ activeCollection = NoCollection
    /\ activeRequest = NoRequestDoc
    /\ activeRequestPath = <<>>
    /\ dirTask = NoTask

\* the collections a running import may still append
Incoming == IF dirTask.op \in {"read", "import"} THEN 1 ELSE 0

\* handleCreateCollection()
HandleCreateCollection ==
    /\ Rendered
    /\ ~CallSettled
    /\ Len(collections) + Incoming < MaxCollections
    /\ \E name \in PromptedNames :
          LET newCollection == [id |-> generateId, name |-> name, item |-> NewRef(heap)]
          IN  /\ heap' = Allocate(heap, <<>>)
              /\ collections' = Append(collections, newCollection)
    /\ UNCHANGED <<selectionVars, mutVars, dir, storeVars, sendVars>>
    /\ UNCHANGED outsideApp

\* `setCollections(prev => [...prev, collection])` and the toast of
\* handleFileUpload
AppendImported(collection) == collections' = Append(collections, collection)

\* handleFileUpload(event), up to its first wait: with a folder the import
\* of the directory backend is called and awaited; without, a FileReader
\* is started on the file
HandleFileUpload ==
    /\ Rendered
    /\ ~CallSettled
    /\ dirTask = NoTask
    /\ Len(collections) < MaxCollections
    /\ \E text \in UploadedFiles :
          dirTask' = IF usingFileSystem /\ folderHandle
                     THEN [NoTask EXCEPT !.op = "import", !.pc = "text",
                                         !.caller = "handleFileUpload", !.text = text]
                     ELSE [NoTask EXCEPT !.op = "read", !.pc = "readAsText",
                                         !.caller = "handleFileUpload", !.text = text]
    /\ UNCHANGED <<appVars, mutVars, dir, usingFileSystem, folderHandle, sendVars>>
    /\ UNCHANGED outsideApp

\* reader.onload of handleFileUpload: the text is parsed and the collection
\* appended; a text that is no JSON makes JSON.parse throw before, a
\* document without `info` makes the toast's collection.info.name throw
\* after the append, and the catch block shows the failure
ReaderLoads ==
    /\ dirTask.pc = "readAsText"
    /\ LET json == JsonParse(dirTask.text)
       IN  IF ~json.ok
           THEN UNCHANGED <<collections, heap>>
           ELSE IF HasField(json.v, "info")
           THEN /\ heap' = Allocate(heap, ItemsOfValue(Field(json.v, "item")))
                /\ AppendImported(CollectionObject(parsePostmanCollection(json.v),
                                                   NewRef(heap)))
           ELSE /\ AppendImported(NoInfoCollection)
                /\ UNCHANGED heap
    /\ dirTask' = NoTask
    /\ UNCHANGED <<selectionVars, mutVars, dir, usingFileSystem, folderHandle, sendVars>>
    /\ UNCHANGED outsideApp

\* the part of handleDeleteCollection after the await: the filter and the
\* reset of the selection; `active` is the activeCollection of the render
\* the handler was created in
RemoveCollection(collection, active) ==
    LET Kept(c) == c.id # collection.id
        cleared == active.id = collection.id
        selected == IF cleared THEN NoCollection ELSE activeCollection
    IN  /\ collections' = SelectSeq(collections, Kept)
        /\ activeCollection' = selected
        /\ activeRequest' = IF cleared THEN NoRequestDoc ELSE activeRequest
        /\ activeRequestPath' = IF cleared THEN <<>> ELSE activeRequestPath
        /\ shownResponse' = IF cleared THEN NoShown ELSE shownResponse
        /\ heap' = Collect(heap, Elements(SelectSeq(collections, Kept)) \cup {selected}
                                      \cup Saving)

\* handleDeleteCollection(collection), the dialog confirmed: with a folder
\* up to `await deleteCollectionFromFolder(...)`, without to its end
HandleDeleteCollection ==
    /\ Rendered
    /\ ~CallSettled
    /\ \E i \in 1..Len(collections) :
          IF usingFileSystem /\ folderHandle
          THEN /\ dirTask = NoTask
               /\ dirTask' = [NoTask EXCEPT !.op = "delete", !.pc = "removeEntry",
                                            !.caller = "handleDeleteCollection",
                                            !.collection = collections[i],
                                            !.fileName = DeleteFileName(collections[i].name),
                                            !.active = activeCollection]
               /\ UNCHANGED <<appVars, shownResponse>>
          ELSE /\ RemoveCollection(collections[i], activeCollection)
               /\ UNCHANGED dirTask
    /\ UNCHANGED <<mutVars, dir, usingFileSystem, folderHandle, isLoading, inFlight>>
    /\ UNCHANGED outsideApp

\* the auto-save effect calls saveCollectionToFolder(folderHandle,
\* collection) for a collection of the working set
AutoSaveCollection ==
    /\ Rendered
    /\ usingFileSystem /\ folderHandle
    /\ dirTask = NoTask
    /\ \E i \in 1..Len(collections) :
          dirTask' = [NoTask EXCEPT !.op = "save", !.pc = "getFileHandle",
                                    !.caller = "effect",
                                    !.collection = collections[i],
                                    !.fileName = SaveFileName(collections[i])]
    /\ UNCHANGED <<appVars, mutVars, dir, usingFileSystem, folderHandle, sendVars>>
    /\ UNCHANGED outsideApp

\* the mutant: the catch block only logs
SwallowDirectoryError == "returned"

\* `catch (error) { console.error(...); throw error; }` of
\* saveCollectionToFolder, deleteCollectionFromFolder and
\* importCollectionToFolder
RethrowDirectoryError == "threw"

\* importCollectionToFolder: file.text() resolves, the text is parsed and
\* saveCollectionToFolder is called; a text that is no JSON makes
\* JSON.parse throw, a document without `info` makes collection.info.name
\* of the file name throw, and the catch blocks end the call
ImportReadsFile ==
    /\ dirTask.pc = "text"
    /\ LET json == JsonParse(dirTask.text)
       IN  IF json.ok /\ HasField(json.v, "info")
           THEN /\ heap' = Allocate(heap, ItemsOfValue(Field(json.v, "item")))
                /\ dirTask' = [dirTask EXCEPT
                      !.pc = "getFileHandle",
                      !.collection = CollectionObject(parsePostmanCollection(json.v),
                                                      NewRef(heap)),
                      !.fileName = SaveFileName(CollectionObject(json.v, 0))]
           ELSE /\ dirTask' = [dirTask EXCEPT
                      !.pc = RethrowDirectoryError,
                      !.failedAt = IF json.ok THEN "fileName" ELSE "parse"]
                /\ UNCHANGED heap
    /\ UNCHANGED <<collections, selectionVars, mutVars, dir, usingFileSystem, folderHandle,
                   sendVars>>
    /\ UNCHANGED outsideApp

\* saveCollectionToFolder: getFileHandle(fileName, { create: true })
\* resolves
SaveGetsFileHandle ==
    /\ dirTask.pc = "getFileHandle"
    /\ dir' = GetFileHandle(dir, dirTask.fileName)
    /\ dirTask' = [dirTask EXCEPT !.pc = "createWritable"]
    /\ UNCHANGED <<appVars, mutVars, usingFileSystem, folderHandle, sendVars>>
    /\ UNCHANGED outsideApp

\* saveCollectionToFolder: createWritable() resolves, the collection is
\* serialized and write() is called
SaveCreatesWritable ==
    /\ dirTask.pc = "createWritable"
    /\ dirTask' = [dirTask EXCEPT !.pc = "write",
                                  !.text = exportCollection(DocumentOf(dirTask.collection, heap))]
    /\ UNCHANGED <<appVars, mutVars, dir, usingFileSystem, folderHandle, sendVars>>
    /\ UNCHANGED outsideApp

\* saveCollectionToFolder: write() resolves and close() is called
SaveWrites ==
    /\ dirTask.pc = "write"
    /\ dirTask' = [dirTask EXCEPT !.pc = "close"]
    /\ UNCHANGED <<appVars, mutVars, dir, usingFileSystem, folderHandle, sendVars>>
    /\ UNCHANGED outsideApp

\* saveCollectionToFolder: close() resolves; the save, and the import that
\* called it, return
SaveCloses ==
    /\ dirTask.pc = "close"
    /\ dir' = CloseWritable(dir, dirTask.fileName, dirTask.text)
    /\ dirTask' = [dirTask EXCEPT !.pc = "returned"]
    /\ UNCHANGED <<appVars, mutVars, usingFileSystem, folderHandle, sendVars>>
    /\ UNCHANGED outsideApp

\* deleteCollectionFromFolder: removeEntry(fileName) resolves and the
\* delete returns; it resolves for a file that exists and that no writable
\* is open on
DeleteRemovesEntry ==
    /\ dirTask.pc = "removeEntry"
    /\ HasEntry(dir, dirTask.fileName)
    /\ ~WritableOpen(dirTask.fileName)
    /\ dir' = RemoveEntry(dir, dirTask.fileName)
    /\ dirTask' = [dirTask EXCEPT !.pc = "returned"]
    /\ UNCHANGED <<appVars, mutVars, usingFileSystem, folderHandle, sendVars>>
    /\ UNCHANGED outsideApp

\* the awaited operation of the running call rejects (no permission, no
\* space, no such entry, the file cannot be read), and the catch block
\* ends the call
DirectoryCallFails ==
    /\ dirTask.op \in {"save", "delete", "import"}
    /\ ~CallSettled
    /\ dirTask' = [dirTask EXCEPT !.pc = RethrowDirectoryError, !.failedAt = dirTask.pc]
    /\ UNCHANGED <<appVars, mutVars, dir, usingFileSystem, folderHandle, sendVars>>
    /\ UNCHANGED outsideApp

\* the handler that awaited the call goes on: after a return with the rest
\* of its try block, after a throw with its catch block (a toast, or a log)
CallerContinues ==
    /\ CallSettled
    /\ IF dirTask.pc = "returned" /\ dirTask.caller = "handleDeleteCollection"
       THEN RemoveCollection(dirTask.collection, dirTask.active)
       ELSE IF dirTask.pc = "returned" /\ dirTask.caller = "handleFileUpload"
       THEN /\ AppendImported(dirTask.collection)
            /\ UNCHANGED <<heap, selectionVars, shownResponse>>
       ELSE /\ heap' = Collect(heap, Elements(collections) \cup {activeCollection})
            /\ UNCHANGED <<collections, selectionVars, shownResponse>>
    /\ dirTask' = NoTask
    /\ UNCHANGED <<mutVars, dir, usingFileSystem, folderHandle, isLoading, inFlight>>
    /\ UNCHANGED outsideApp

StoreNext ==
    \/ HandleCreateCollection
    \/ HandleFileUpload
    \/ HandleDeleteCollection
    \/ HandleRequestSelect
    \/ AutoSaveCollection
    \/ ReaderLoads
    \/ ImportReadsFile
    \/ SaveGetsFileHandle
    \/ SaveCreatesWritable
    \/ SaveWrites
    \/ SaveCloses
    \/ DeleteRemovesEntry
    \/ DirectoryCallFails
    \/ CallerContinues

SpecStore == StoreInit /\ [][StoreNext]_vars

-----------------------------------------------------------------------------
(* Claims about the working set and the directory backend.                 *)

\* the array without its i-th entry
Without(set, i) == [k \in 1..(Len(set) - 1) |-> IF k < i THEN set[k] ELSE set[k + 1]]

\* C12: deleting a collection by id removes exactly that one entry from the
\* working set and leaves every other collection present, in its previous
\* relative order: a step that shortens the working set takes one entry
\* out of it and keeps the others as they were
C12_DeleteRemovesExactlyOneEntry ==
    [][Len(collections') < Len(collections)
          => \E i \in 1..Len(collections) : collections' = Without(collections, i)]_vars

\* C17: a failure of the directory backend's save, delete or import is
\* propagated to the caller: a call in which an operation failed ends by
\* throwing; and when the delete awaited by handleDeleteCollection has
\* thrown, the handler's next step leaves the working set, with the
\* collection in it, and the active selection as they are
C17_DirectoryFailuresPropagate ==
    /\ [](dirTask.failedAt # "none" => dirTask.pc = "threw")
    /\ [][(dirTask.pc = "threw" /\ dirTask.caller = "handleDeleteCollection")
            => /\ collections' = collections
               /\ \E i \in 1..Len(collections') : collections'[i] = dirTask.collection
               /\ \A i \in 1..Len(collections') :
                     heap'[collections'[i].item] = heap[collections[i].item]
               /\ activeCollection' = activeCollection
               /\ activeRequest' = activeRequest
               /\ activeRequestPath' = activeRequestPath]_vars

\* the delete of the selected collection has failed in removeEntry, and
\* handleDeleteCollection is about to go on
C17_Witness ==
    /\ dirTask.op = "delete"
    /\ dirTask.failedAt = "removeEntry"
    /\ CallSettled
    /\ activeCollection = dirTask.collection
    /\ activeRequest # NoRequestDoc

\* the characters a file name keeps
KeptCharacters == LowerCase \cup UpperCase \cup Digits \cup {"_", "-"}

\* the file name the rule gives a collection name
FileNameOf(name) ==
    Append([i \in 1..Len(name) |-> IF name[i] \in KeptCharacters THEN name[i] ELSE "_"],
           Suffix)

\* C18: save and delete derive the same file name from a collection name,
\* every character outside [A-Za-z0-9_-] replaced by '_' and
\* '.collection.json' appended; so the directory holds one file of a name,
\* a save that has returned has written the file of every collection whose
\* name is equal after the replacement, and a delete that has returned has
\* removed it
C18_SaveAndDeleteShareTheFileName ==
    /\ dirTask.fileName # <<>> => dirTask.fileName = FileNameOf(dirTask.collection.name)
    /\ \A i, j \in 1..Len(dir) : dir[i].name = dir[j].name => i = j
    /\ \A c \in Elements(collections) \cup {dirTask.collection} :
          (FileNameOf(c.name) = FileNameOf(dirTask.collection.name) /\ dirTask.pc = "returned")
             => IF dirTask.op = "delete"
                THEN ~HasEntry(dir, FileNameOf(c.name))
                ELSE /\ HasEntry(dir, FileNameOf(c.name))
                     /\ dir[EntryIndex(dir, FileNameOf(c.name))].text =
                           exportCollection(DocumentOf(dirTask.collection, heap))

\* a delete has returned while the working set holds a collection of
\* another name and the same file name
C18_Witness ==
    /\ dirTask.op = "delete"
    /\ dirTask.pc = "returned"
    /\ \E c \in Elements(collections) :
          /\ c.name # dirTask.collection.name
          /\ FileNameOf(c.name) = dirTask.fileName
          /\ ~HasEntry(dir, FileNameOf(c.name))

-----------------------------------------------------------------------------
(* Sending the active request and showing its response.                    *)

\* the statuses executeRequest resolves with (0: the request failed)
ResultStatuses == {200, 404, 0}

\* the request selected: its collection and its path
Selection == <<activeCollection.id, activeRequestPath>>

\* a working set with four requests to choose from
SendInit ==
    /\ SessionIdle
    /\ NavIdle
    /\ ExecIdle
    /\ MutIdle
    /\ JsonIdle
    /\ KvIdle
    /\ DirIdle
    /\ StoreIdle
    /\ SendIdle
    /\ heap = <<<<createNewRequest("a"), FolderOf("f", <<createNewRequest("b")>>)>>,
                <<createNewRequest("a"), createNewRequest("c")>>>>
    /\ collections = <<[id |-> "c1", name |-> <<"T">>, item |-> 1],
                       [id |-> "c2", name |-> <<"B">>, item |-> 2]>>
    /\ activeCollection = NoCollection
    /\ activeRequest = NoRequestDoc
    /\ activeRequestPath = <<>>

\* the Send button of the editor, enabled while isLoading is false, calls
\* handleSendRequest(), which runs up to `await executeRequest(...)`
HandleSendRequest ==
    /\ ~isLoading
    /\ activeRequest # NoRequestDoc
    /\ isLoading' = TRUE
    /\ shownResponse' = NoShown
    /\ inFlight' = inFlight \cup {[request |-> activeRequest, selection |-> Selection]}
    /\ UNCHANGED <<appVars, mutVars, dir, storeVars>>
    /\ UNCHANGED outsideApp

\* executeRequest resolves: handleSendRequest goes on with
\* setResponse(result) and, in its finally block, setIsLoading(false)
ExecuteRequestResolves ==
    /\ \E send \in inFlight :
          \E status \in ResultStatuses :
             /\ shownResponse' = [shown |-> TRUE, status |-> status,
                                  selection |-> send.selection]
             /\ inFlight' = inFlight \ {send}
    /\ isLoading' = FALSE
    /\ UNCHANGED <<appVars, mutVars, dir, storeVars>>
    /\ UNCHANGED outsideApp

SendNext ==
    \/ HandleRequestSelect
    \/ HandleRequestChange
    \/ HandleSendRequest
    \/ ExecuteRequestResolves

SpecSend == SendInit /\ [][SendNext]_vars

\* C19: whenever a response is displayed, it was produced by an execution
\* of the currently active request
C19_ShownResponseIsOfActiveRequest ==
    shownResponse.shown => shownResponse.selection = Selection

-----------------------------------------------------------------------------
(* Claims about the ids of the working set.                                *)

\* C25: after any sequence of startup load, create-collection, import and
\* delete-collection operations, no two collections in the working set have
\* the same info id
C25_CollectionIdsAreUnique ==
    \A i, j \in 1..Len(collections) : collections[i].id = collections[j].id => i = j

\* the text is malformed: no JSON, or JSON that is no collection document
Malformed(text) == ~JsonParse(text).ok \/ ~HasField(JsonParse(text).v, "info")

\* C24: when an import fails because the file is malformed, the operation
\* is aborted with the prior state untouched: no step of the import of a
\* malformed file changes the working set or the directory
C24_MalformedImportLeavesStateUntouched ==
    [][(dirTask.op \in {"read", "import"} /\ Malformed(dirTask.text) /\ dirTask' # dirTask)
          => /\ collections' = collections
             /\ dir' = dir
             /\ \A i \in 1..Len(collections) :
                   heap'[collections'[i].item] = heap[collections[i].item]]_vars

-----------------------------------------------------------------------------
(* localStorage as the component uses it: the load of the mount effect     *)
(* and the save effect.                                                    *)

\* loadFromLocalStorage(key, defaultValue)
loadFromLocalStorage(key, defaultValue) ==
    LET item == kvStore[key]
        json == JsonParse(item)
    IN  IF item = NoEntry \/ item = <<>> THEN defaultValue
        ELSE IF json.ok THEN json.v
        ELSE CatchStorageError(defaultValue).value

\* saveToLocalStorage(key, data) on the entries `store`; stored says
\* whether setItem stores the text or throws
saveToLocalStorage(store, key, data, stored) ==
    IF stored THEN [store EXCEPT ![key] = Stringify(data)] ELSE store

\* `if (savedHandle)`: null is the only value of the handle entry that is
\* not taken for a handle
Truthy(v) == v # JNull

\* the array `collections` as JSON.stringify sees it
SetValue(set, h) == JArr([i \in 1..Len(set) |-> DocumentOf(set[i], h)])

RECURSIVE ParsedSet(_, _, _)
\* the objects JSON.parse makes of the collection documents docs, after
\* the objects `set`, and the heap h with their item arrays
ParsedSet(h, docs, set) ==
    IF docs = <<>> THEN [set |-> set, heap |-> h]
    ELSE ParsedSet(Allocate(h, ItemsOfValue(Field(Head(docs), "item"))), Tail(docs),
                   Append(set, CollectionObject(Head(docs), NewRef(h))))

\* the mutant: the sample collection whatever was saved
StartupAlwaysSample(saved) == JArr(<<SampleCollection>>)

\* `if (savedCollections.length > 0) setCollections(savedCollections) else
\* setCollections([createSampleCollection()])` of the mount effect
StartupCollections(saved) ==
    IF saved.t = "arr" /\ Len(saved.a) > 0 THEN saved ELSE JArr(<<SampleCollection>>)

\* the effect `if (!usingFileSystem) saveToLocalStorage('postman-collections',
\* collections)` of a render with the state fs, set (and its arrays h)
KvSaveEffect(fs, set, h, stored) ==
    /\ kvStore' = IF fs THEN kvStore
                  ELSE saveToLocalStorage(kvStore, "postman-collections",
                                          SetValue(set, h), stored)
    /\ lastSaved' = IF ~fs /\ stored THEN Deep(set, h) ELSE lastSaved

-----------------------------------------------------------------------------
(* SpecAutoSave: the auto-save effect in directory mode. Every render in   *)
(* which `collections` is a new array starts one pass; a pass calls        *)
(* saveCollectionToFolder once per collection, and the calls of all passes *)
(* run side by side. The calls stay in `saves` after they have settled.    *)

\* the largest number of calls in `saves` with which a request change is
\* still taken
MaxSaves == 2

\* the passes started so far
Passes == IF saves = <<>> THEN 0 ELSE saves[Len(saves)].pass

\* `collections.forEach(async (collection) => { ... await
\* saveCollectionToFolder(folderHandle, collection) ... })`: each call runs
\* to its first await, the getFileHandle of the file name of its collection
StartedSaves(set, pass) ==
    [i \in 1..Len(set) |->
        [pass |-> pass, collection |-> set[i], fileName |-> SaveFileName(set[i]),
         pc |-> "getFileHandle", text |-> <<>>]]

\* the auto-save effect of a render with the state fs (usingFileSystem),
\* handle (folderHandle) and set (collections)
AutoSaveEffect(fs, handle, set) ==
    saves' = IF fs /\ handle /\ Len(set) > 0
             THEN saves \o StartedSaves(set, Passes + 1)
             ELSE saves

\* the mutant: a call that throws ends the calls of its pass that are
\* still running
FailedSaveEndsPass(tasks, k) ==
    [j \in 1..Len(tasks) |->
        IF tasks[j].pass = tasks[k].pass /\ ~SaveSettled(tasks[j])
        THEN [tasks[j] EXCEPT !.pc = "threw"]
        ELSE tasks[j]]

\* `catch (error) { console.error(...) }` in the callback of the pass: the
\* call that threw is logged, nothing else happens
FailedSave(tasks, k) == [tasks EXCEPT ![k].pc = "threw"]

\* the folder of the session: two collection files with different names
SavedFolder ==
    <<CollectionValue("f0", <<"a">>, <<createNewRequest("a")>>),
      CollectionValue("f1", <<"Z">>, <<createNewRequest("a")>>)>>

\* the state after handleSelectFolder has loaded a folder of one or two
\* collections into an empty working set: the render of
\* setCollections(loadedCollections) has started the first pass
AutoSaveInit ==
    /\ NavIdle
    /\ ExecIdle
    /\ JsonIdle
    /\ KvIdle
    /\ MutIdle
    /\ SendIdle
    /\ listing = NotListing
    /\ support = TRUE
    /\ mounted = TRUE
    /\ startups = 1
    /\ selecting = NotSelecting
    /\ restored = FALSE
    /\ lastSaved = <<>>
    /\ usingFileSystem = TRUE
    /\ folderHandle = TRUE
    /\ dirTask = NoTask
    /\ \E n \in 1..Len(SavedFolder) :
          /\ dir = [i \in 1..n |-> File(SaveFileName(CollectionObject(SavedFolder[i], i)),
                                        exportCollection(SavedFolder[i]))]
          /\ collections = [i \in 1..n |-> CollectionObject(SavedFolder[i], i)]
          /\ heap = [i \in 1..n |-> ItemsOfValue(Field(SavedFolder[i], "item"))]
    /\ saves = StartedSaves(collections, 1)
    /\ activeCollection = NoCollection
    /\ activeRequest = NoRequestDoc
    /\ activeRequestPath = <<>>

\* handleRequestChange(newRequest) with the render it causes: the new
\* array is saved to localStorage, or the auto-save effect starts a pass
\* over it
RequestChangeAndEffects ==
    /\ ~CallSettled
    /\ activeCollection # NoCollection
    /\ activeRequestPath # <<>>
    /\ (usingFileSystem /\ folderHandle) => Len(saves) + Len(collections) <= MaxSaves
    /\ heap' = MapChange(collections, heap, activeCollection.id, activeRequestPath,
                         EditedRequestDoc)
    /\ activeRequest' = EditedRequestDoc
    /\ activeCollection' = FindCollection(collections, activeCollection.id)
    /\ \E stored \in BOOLEAN : KvSaveEffect(usingFileSystem, collections, heap', stored)
    /\ AutoSaveEffect(usingFileSystem, folderHandle, collections)
    /\ UNCHANGED <<collections, activeRequestPath, mutVars, dir, storeVars, sendVars>>
    /\ UNCHANGED <<navVars, execVars, jsonVars, kvCall, listVars,
                   support, mounted, startups, selecting, restored>>

\* handleDeleteCollection goes on after its await: after a return with the
\* filter, whose render starts a pass over the collections that are left,
\* after a throw with the toast of its catch block
DeleteContinuesAndEffects ==
    /\ CallSettled
    /\ dirTask.caller = "handleDeleteCollection"
    /\ IF dirTask.pc = "returned"
       THEN /\ RemoveCollection(dirTask.collection, dirTask.active)
            /\ AutoSaveEffect(usingFileSystem, folderHandle, collections')
       ELSE UNCHANGED <<appVars, shownResponse, saves>>
    /\ dirTask' = NoTask
    /\ UNCHANGED <<mutVars, dir, usingFileSystem, folderHandle, isLoading, inFlight>>
    /\ UNCHANGED outsidePass

\* saveCollectionToFolder of a pass: getFileHandle(fileName, { create:
\* true }) resolves; on the object read back from localStorage it is no
\* function
PassGetsFileHandle ==
    /\ ~CallSettled
    /\ ~restored
    /\ \E k \in 1..Len(saves) :
          /\ saves[k].pc = "getFileHandle"
          /\ dir' = GetFileHandle(dir, saves[k].fileName)
          /\ saves' = [saves EXCEPT ![k].pc = "createWritable"]
    /\ UNCHANGED <<appVars, mutVars, storeVars, sendVars>>
    /\ UNCHANGED outsidePass

\* saveCollectionToFolder of a pass: createWritable() resolves, which it
\* does for a file that exists; the collection is serialized as it is now
\* and write() is called
PassCreatesWritable ==
    /\ ~CallSettled
    /\ \E k \in 1..Len(saves) :
          /\ saves[k].pc = "createWritable"
          /\ HasEntry(dir, saves[k].fileName)
          /\ saves' = [saves EXCEPT
                ![k].pc = "write",
                ![k].text = exportCollection(DocumentOf(saves[k].collection, heap))]
    /\ UNCHANGED <<appVars, mutVars, dir, storeVars, sendVars>>
    /\ UNCHANGED outsidePass

\* saveCollectionToFolder of a pass: write() resolves and close() is called
PassWrites ==
    /\ ~CallSettled
    /\ \E k \in 1..Len(saves) :
          /\ saves[k].pc = "write"
          /\ saves' = [saves EXCEPT ![k].pc = "close"]
    /\ UNCHANGED <<appVars, mutVars, dir, storeVars, sendVars>>
    /\ UNCHANGED outsidePass

\* saveCollectionToFolder of a pass: close() resolves and the call returns
PassCloses ==
    /\ ~CallSettled
    /\ \E k \in 1..Len(saves) :
          /\ saves[k].pc = "close"
          /\ dir' = CloseWritable(dir, saves[k].fileName, saves[k].text)
          /\ saves' = [saves EXCEPT ![k].pc = "returned"]
    /\ UNCHANGED <<appVars, mutVars, storeVars, sendVars>>
    /\ UNCHANGED outsidePass

\* the awaited operation of a call of a pass rejects; saveCollectionToFolder
\* throws the error again and the callback of the pass catches it
PassSaveFails ==
    /\ ~CallSettled
    /\ \E k \in 1..Len(saves) :
          /\ ~SaveSettled(saves[k])
          /\ saves' = FailedSave(saves, k)
    /\ UNCHANGED <<appVars, mutVars, dir, storeVars, sendVars>>
    /\ UNCHANGED outsidePass

AutoSaveNext ==
    \/ HandleRequestSelect
    \/ RequestChangeAndEffects
    \/ HandleDeleteCollection
    \/ DeleteRemovesEntry
    \/ DirectoryCallFails
    \/ DeleteContinuesAndEffects
    \/ PassGetsFileHandle
    \/ PassCreatesWritable
    \/ PassWrites
    \/ PassCloses
    \/ PassSaveFails

SpecAutoSave == AutoSaveInit /\ [][AutoSaveNext]_vars

-----------------------------------------------------------------------------
(* Claims about the auto-save passes.                                      *)

\* the calls of pass p
CallsOf(p) == {k \in 1..Len(saves) : saves[k].pass = p}

\* C26: an auto-persist pass writes every collection of the working set
\* independently: the step in which the write of one collection fails
\* changes no other call and no file (nothing is rolled back), and every
\* call that has returned has left its text in its file, for as long as
\* the collection is not being deleted and no other call has written the
\* file
C26_PassWritesEachCollectionIndependently ==
    /\ [](\A k \in 1..Len(saves) :
             (/\ saves[k].pc = "returned"
              /\ saves[k].collection \in Elements(collections)
              /\ dirTask.op # "delete"
              /\ \A j \in 1..Len(saves) :
                    (j # k /\ saves[j].fileName = saves[k].fileName)
                       => saves[j].pc # "returned")
                => /\ HasEntry(dir, saves[k].fileName)
                   /\ dir[EntryIndex(dir, saves[k].fileName)].text = saves[k].text)
    /\ [][\A k \in 1..Len(saves) :
             (~SaveSettled(saves[k]) /\ saves'[k].pc = "threw")
                => /\ dir' = dir
                   /\ \A j \in 1..Len(saves) : j # k => saves'[j] = saves[j]]_vars

\* in a pass over two collections the write of one has failed and the
\* write of the other has returned with its text in its file
C26_Witness ==
    \E k, j \in CallsOf(1) :
        /\ saves[k].pc = "threw"
        /\ saves[j].pc = "returned"
        /\ saves[j].collection # saves[k].collection
        /\ HasEntry(dir, saves[j].fileName)
        /\ dir[EntryIndex(dir, saves[j].fileName)].text = saves[j].text
        /\ saves[j].text # <<>>

\* C28: in directory mode, after handleDeleteCollection has succeeded for a
\* collection and all pending writes have completed, the directory holds
\* no file for that collection: a save that was started before the delete
\* cannot bring the file back
C28_DeletedCollectionStaysDeleted ==
    (dirTask = NoTask /\ \A k \in 1..Len(saves) : SaveSettled(saves[k]))
       => \A k \in 1..Len(saves) :
             saves[k].collection \notin Elements(collections)
                => ~HasEntry(dir, saves[k].fileName)

\* C29: in directory mode, with collections whose file names differ and
\* no write failing, once every pending write has completed the file
\* of each collection holds the latest version of that collection
C29_FilesHoldTheLatestVersion ==
    (/\ dirTask = NoTask
     /\ \A k \in 1..Len(saves) : saves[k].pc = "returned")
       => \A i \in 1..Len(collections) :
             /\ HasEntry(dir, SaveFileName(collections[i]))
             /\ dir[EntryIndex(dir, SaveFileName(collections[i]))].text
                   = exportCollection(DocumentOf(collections[i], heap))

-----------------------------------------------------------------------------
(* SpecSession: the component from its mount to a reload. A step that      *)
(* changes the component state includes the render it causes and the       *)
(* effects of that render: the save to localStorage and the auto-save      *)
(* pass.                                                                   *)

\* the largest number of mounts of the component in one behaviour
MaxStartups == 2

\* what the session leaves alone
outsideSession == <<navVars, execVars, jsonVars, mutVars, kvCall, dirTask, isLoading, inFlight>>

\* the folders the user may pick: an empty one, and one with a collection
\* file
PickedFolders ==
    {<<>>,
     <<File(SaveFileName(CollectionObject(StoredCollection, 1)),
            exportCollection(StoredCollection))>>}

\* a browser with or without showDirectoryPicker, nothing in localStorage,
\* the component not mounted yet
SessionInit ==
    /\ NavIdle
    /\ ExecIdle
    /\ JsonIdle
    /\ MutIdle
    /\ SendIdle
    /\ AppIdle
    /\ StoreIdle
    /\ listing = NotListing
    /\ kvStore = [key \in KvKeys |-> NoEntry]
    /\ kvCall = NoKvCall
    /\ dir \in PickedFolders
    /\ saves = <<>>
    /\ support \in BOOLEAN
    /\ mounted = FALSE
    /\ startups = 0
    /\ selecting = NotSelecting
    /\ restored = FALSE
    /\ lastSaved = <<>>

\* the first render and its effects, in the order they are defined, with
\* the state of that render (no collections, usingFileSystem false): the
\* mount effect, the save to localStorage, the auto-save effect; then the
\* render of the state the mount effect has set, and its effects. The
\* object read back for the folder handle has no entries(), so
\* loadCollectionsFromFolder returns [] and `.then(setCollections)` sets it
MountAndEffects ==
    /\ ~mounted
    /\ \E first, second \in BOOLEAN :
          LET savedHandle == loadFromLocalStorage("collections-folder-handle", JNull)
              savedCollections == loadFromLocalStorage("postman-collections", JArr(<<>>))
              startup == IF support
                         THEN IF Truthy(savedHandle) THEN JArr(<<>>)
                              ELSE JArr(<<SampleCollection>>)
                         ELSE StartupCollections(savedCollections)
              cleared == saveToLocalStorage(kvStore, "postman-collections",
                                            JArr(<<>>), first)
              parsed == ParsedSet(<<>>, startup.a, <<>>)
          IN  /\ usingFileSystem' = support
              /\ folderHandle' = (support /\ Truthy(savedHandle))
              /\ restored' = (support /\ Truthy(savedHandle))
              /\ collections' = parsed.set
              /\ heap' = parsed.heap
              /\ kvStore' = IF support THEN cleared
                            ELSE saveToLocalStorage(cleared, "postman-collections",
                                                    SetValue(collections', heap'), second)
              /\ lastSaved' = IF ~support /\ second THEN Deep(collections', heap')
                              ELSE IF first THEN <<>>
                              ELSE lastSaved
              /\ AutoSaveEffect(usingFileSystem', folderHandle', collections')
    /\ mounted' = TRUE
    /\ startups' = startups + 1
    /\ UNCHANGED <<selectionVars, shownResponse, dir, listing, support, selecting>>
    /\ UNCHANGED outsideSession

\* the page is loaded again: the component state is gone, the calls that
\* were running are dropped, localStorage and the folder stay
Reload ==
    /\ mounted
    /\ startups < MaxStartups
    /\ mounted' = FALSE
    /\ collections' = <<>>
    /\ heap' = <<>>
    /\ activeCollection' = NoCollection
    /\ activeRequest' = NoRequestDoc
    /\ activeRequestPath' = <<>>
    /\ shownResponse' = NoShown
    /\ usingFileSystem' = FALSE
    /\ folderHandle' = FALSE
    /\ restored' = FALSE
    /\ saves' = <<>>
    /\ listing' = NotListing
    /\ selecting' = NotSelecting
    /\ UNCHANGED <<kvStore, dir, support, startups, lastSaved>>
    /\ UNCHANGED outsideSession

\* handleCreateCollection() with the render it causes
CreateCollectionAndEffects ==
    /\ mounted
    /\ selecting.pc # "showDirectoryPicker"
    /\ Len(collections) < MaxCollections
    /\ (usingFileSystem /\ folderHandle) => Len(saves) + Len(collections) < MaxSaves
    /\ \E name \in PromptedNames, stored \in BOOLEAN :
          LET newCollection == [id |-> generateId, name |-> name, item |-> NewRef(heap)]
          IN  /\ heap' = Allocate(heap, <<>>)
              /\ collections' = Append(collections, newCollection)
              /\ KvSaveEffect(usingFileSystem, collections', heap', stored)
              /\ AutoSaveEffect(usingFileSystem, folderHandle, collections')
    /\ UNCHANGED <<selectionVars, shownResponse, dir, listing, usingFileSystem, folderHandle,
                   support, mounted, startups, selecting, restored>>
    /\ UNCHANGED outsideSession

\* handleDeleteCollection(collection) without a folder, the dialog
\* confirmed, with the render it causes
DeleteCollectionAndEffects ==
    /\ mounted
    /\ selecting.pc # "showDirectoryPicker"
    /\ ~(usingFileSystem /\ folderHandle)
    /\ \E i \in 1..Len(collections), stored \in BOOLEAN :
          /\ RemoveCollection(collections[i], activeCollection)
          /\ KvSaveEffect(usingFileSystem, collections', heap', stored)
    /\ UNCHANGED <<dir, listing, usingFileSystem, folderHandle, saves,
                   support, mounted, startups, selecting, restored>>
    /\ UNCHANGED outsideSession

\* handleSelectFolder(), up to `await showDirectoryPicker(...)` of
\* selectCollectionsFolder; the button is rendered with
\* `usingFileSystem && !folderHandle`
HandleSelectFolder ==
    /\ mounted
    /\ usingFileSystem /\ ~folderHandle
    /\ selecting.pc = "none"
    /\ Len(collections) + Len(dir) <= MaxSaves
    /\ selecting' = [selecting EXCEPT !.pc = "showDirectoryPicker"]
    /\ UNCHANGED <<appVars, shownResponse, kvStore, dir, listing, usingFileSystem,
                   folderHandle, saves, support, mounted, startups, restored, lastSaved>>
    /\ UNCHANGED outsideSession

\* the user picks the folder: selectCollectionsFolder saves the handle
\* (JSON.stringify makes '{}' of it) and returns it, handleSelectFolder
\* calls setFolderHandle and loadCollectionsFromFolder, and the render of
\* the new folderHandle runs the auto-save effect over the collections in
\* memory
SelectFolderPicked ==
    /\ selecting.pc = "showDirectoryPicker"
    /\ \E stored \in BOOLEAN :
          kvStore' = saveToLocalStorage(kvStore, "collections-folder-handle",
                                        JObj(<<>>), stored)
    /\ folderHandle' = TRUE
    /\ listing' = [NotListing EXCEPT !.pc = "iterating", !.pos = 1]
    /\ selecting' = [pc |-> "loadCollectionsFromFolder", dir |-> dir,
                     collections |-> collections]
    /\ AutoSaveEffect(usingFileSystem, folderHandle', collections)
    /\ UNCHANGED <<appVars, shownResponse, dir, usingFileSystem,
                   support, mounted, startups, restored, lastSaved>>
    /\ UNCHANGED outsideSession

\* the user closes the picker: showDirectoryPicker rejects,
\* selectCollectionsFolder returns null and handleSelectFolder does nothing
SelectFolderCancelled ==
    /\ selecting.pc = "showDirectoryPicker"
    /\ selecting' = NotSelecting
    /\ UNCHANGED <<appVars, shownResponse, kvStore, dir, listing, usingFileSystem,
                   folderHandle, saves, support, mounted, startups, restored, lastSaved>>
    /\ UNCHANGED outsideSession

\* handleSelectFolder goes on after `await loadCollectionsFromFolder(...)`:
\* setCollections(loadedCollections) and the render it causes
SelectFolderContinuesAndEffects ==
    /\ selecting.pc = "loadCollectionsFromFolder"
    /\ listing.pc = "returned"
    /\ LET parsed == ParsedSet(Collect(heap, Saving), listing.collections, <<>>)
       IN  /\ collections' = parsed.set
           /\ heap' = parsed.heap
    /\ AutoSaveEffect(usingFileSystem, folderHandle, collections')
    /\ selecting' = [selecting EXCEPT !.pc = "selected"]
    /\ listing' = NotListing
    /\ UNCHANGED <<selectionVars, shownResponse, kvStore, dir, usingFileSystem,
                   folderHandle, support, mounted, startups, restored, lastSaved>>
    /\ UNCHANGED outsideSession

SessionNext ==
    \/ MountAndEffects
    \/ Reload
    \/ CreateCollectionAndEffects
    \/ DeleteCollectionAndEffects
    \/ HandleSelectFolder
    \/ SelectFolderPicked
    \/ SelectFolderCancelled
    \/ LoadEntry
    \/ LoadEntryReadFails
    \/ EntriesThrows
    \/ ListReturns
    \/ SelectFolderContinuesAndEffects
    \/ PassGetsFileHandle
    \/ PassCreatesWritable
    \/ PassWrites
    \/ PassCloses
    \/ PassSaveFails

SpecSession == SessionInit /\ [][SessionNext]_vars

\* the session of a browser without showDirectoryPicker
KvSessionInit ==
    /\ SessionInit
    /\ ~support
    /\ dir = <<>>

KvSessionNext ==
    \/ MountAndEffects
    \/ Reload
    \/ CreateCollectionAndEffects
    \/ DeleteCollectionAndEffects
    \/ HandleRequestSelect
    \/ RequestChangeAndEffects

SpecKvSession == KvSessionInit /\ [][KvSessionNext]_vars

-----------------------------------------------------------------------------
(* Claims about the session.                                               *)

\* the working set that holds the sample collection only
SampleSet ==
    LET parsed == ParsedSet(<<>>, <<SampleCollection>>, <<>>)
    IN  Deep(parsed.set, parsed.heap)

\* the step is a mount of the component
Mounts == ~mounted /\ mounted'

\* C21: the two backends are never mixed within a session: with
\* showDirectoryPicker the entry 'postman-collections' of localStorage is
\* never written, from the mount onwards; without it no call on a
\* directory is ever made
C21_BackendsAreNeverMixed ==
    /\ support => kvStore["postman-collections"] = NoEntry
    /\ ~support => (saves = <<>> /\ listing = NotListing /\ dirTask = NoTask /\ ~folderHandle)

\* C22: at startup in directory mode, when a saved handle exists and the
\* access through it fails, the working set is the sample collection
C22_FailedRegrantFallsBackToSample ==
    [][(Mounts /\ restored') => Deep(collections', heap') = SampleSet]_vars

\* the documents of the collection files the folder d holds
HeldBy(d) ==
    LET IsCollectionFile(e) == e.kind = "file" /\ EndsWithSuffix(e.name) /\ JsonParse(e.text).ok
        files == SelectSeq(d, IsCollectionFile)
    IN  [i \in 1..Len(files) |-> JsonParse(files[i].text).v]

\* C23: selecting a folder does not migrate the data held in memory: no
\* collection that was in the working set before the selection gets a file
\* in the selected folder, and when the folder has been read without a
\* failure the working set after the selection is the set of collections
\* the folder held before it
C23_SelectingAFolderMigratesNothing ==
    /\ [](selecting.pc \in {"loadCollectionsFromFolder", "selected"}
            => \A i \in 1..Len(selecting.collections) :
                  HasEntry(dir, SaveFileName(selecting.collections[i]))
                     => HasEntry(selecting.dir, SaveFileName(selecting.collections[i])))
    /\ [][(/\ selecting.pc = "loadCollectionsFromFolder"
           /\ selecting'.pc = "selected"
           /\ listing.readFailed = {}
           /\ ~listing.cutShort)
             => [i \in 1..Len(collections') |-> DocumentOf(collections'[i], heap')]
                   = HeldBy(selecting.dir)]_vars

\* C30: in key-value mode a mount restores exactly the working set of the
\* last write that went through when that set is not empty, and the sample
\* collection alone when it is; the working set after a mount is never
\* empty
C30_ReloadRestoresTheSavedSet ==
    [][(Mounts /\ ~support)
          => /\ Deep(collections', heap') = IF lastSaved # <<>> THEN lastSaved ELSE SampleSet
             /\ collections' # <<>>]_vars

\* the component has been mounted a second time in key-value mode, and
\* its working set, a created collection besides the sample, is the one
\* saved last
C30_Witness ==
    /\ mounted
    /\ ~support
    /\ startups = 2
    /\ Len(collections) = 2
    /\ \E i \in 1..Len(collections) : collections[i].id = GeneratedIds[1]
    /\ Deep(collections, heap) = lastSaved

====
